---- MODULE Spec2Model ----
(***************************************************************************)
(* A model of the crawl-and-compare engine of ui-testing-tools:            *)
(*   - normalizeUrl, getDomain, getPathDepth, createSafeFileName           *)
(*   - the two crawl loops, crawlAndScreenshot and generatePageReport      *)
(*   - the two comparison passes (compareMenu of the full tool and of      *)
(*     ui-tester.js)                                                       *)
(*                                                                         *)
(* A JavaScript string is a sequence of characters.  A character is a one  *)
(* character TLA+ string, except that a URL scheme with its colon          *)
(* ("http:", "mailto:") is kept as one token; a scheme token only ever     *)
(* occurs as the first element of a string.                                *)
(***************************************************************************)
EXTENDS Integers, Sequences, FiniteSets, TLC

\* ------------------------------------------------------------------------
\* Strings
\* ------------------------------------------------------------------------

\* JavaScript's null, where a string is expected.
Null == <<"null">>

StartsWith(s, c) == Len(s) >= 1 /\ s[1] = c

StartsWith2(s, c, d) == Len(s) >= 2 /\ s[1] = c /\ s[2] = d

EndsWith(s, c) == Len(s) >= 1 /\ s[Len(s)] = c

\* The index of the first occurrence of c in s, 0 when there is none.
IndexOf(s, c) ==
  IF \E i \in 1..Len(s) : s[i] = c
  THEN CHOOSE i \in 1..Len(s) : s[i] = c /\ \A j \in 1..(i - 1) : s[j] # c
  ELSE 0

From(s, i) == SubSeq(s, i, Len(s))

\* s.split('/')
RECURSIVE Split(_)
Split(s) ==
  IF IndexOf(s, "/") = 0 THEN <<s>>
  ELSE <<SubSeq(s, 1, IndexOf(s, "/") - 1)>> \o Split(From(s, IndexOf(s, "/") + 1))

\* The segments of a path, each preceded by '/'.
RECURSIVE JoinPath(_)
JoinPath(segs) ==
  IF segs = <<>> THEN <<>> ELSE <<"/">> \o Head(segs) \o JoinPath(Tail(segs))

RECURSIVE StripSlashes(_)
StripSlashes(s) == IF StartsWith(s, "/") THEN StripSlashes(Tail(s)) ELSE s

\* ------------------------------------------------------------------------
\* new URL(url [, base]) and its href: the WHATWG URL parser, on the
\* characters of the model.
\* ------------------------------------------------------------------------

SpecialSchemes == {"http:", "https:"}

OtherSchemes == {"mailto:", "tel:", "javascript:", "data:"}

IsScheme(c) == c \in SpecialSchemes \cup OtherSchemes

\* The result of a parse that throws.
BadURL ==
  [ok |-> FALSE, scheme |-> "", opaque |-> FALSE, hasHost |-> FALSE, host |-> <<>>,
   path |-> <<>>, hasQuery |-> FALSE, query |-> <<>>, hasHash |-> FALSE, hash |-> <<>>]

\* The path state: the segments segs are appended to the path acc, a
\* single-dot segment is dropped and a double-dot segment drops the last
\* segment of the path; either leaves an empty segment when it ends the path.
Pop(acc) == IF acc = <<>> THEN acc ELSE SubSeq(acc, 1, Len(acc) - 1)

\* One segment seg, the last of the path or not, added to the path acc.
AddSegment(acc, seg, last) ==
  IF seg = <<".", ".">> THEN (IF last THEN Append(Pop(acc), <<>>) ELSE Pop(acc))
  ELSE IF seg = <<".">> THEN (IF last THEN Append(acc, <<>>) ELSE acc)
  ELSE Append(acc, seg)

RECURSIVE PathState(_, _)
PathState(acc, segs) ==
  IF segs = <<>> THEN acc
  ELSE PathState(AddSegment(acc, Head(segs), Len(segs) = 1), Tail(segs))

\* A host is the characters up to the next '/'; a scheme token is no host
\* character, and a special scheme needs a host.
ValidHost(h, special) ==
  /\ \A i \in 1..Len(h) : ~IsScheme(h[i])
  /\ special => h # <<>>

\* The part of s before the first c (all of s when there is none), and the
\* part after it.
Before(s, c) == IF IndexOf(s, c) = 0 THEN s ELSE SubSeq(s, 1, IndexOf(s, c) - 1)

After(s, c) ==
  [has |-> IndexOf(s, c) > 0,
   s |-> IF IndexOf(s, c) = 0 THEN <<>> ELSE From(s, IndexOf(s, c) + 1)]

\* A URL with a host h; p.has tells whether a '/' followed the host.
HostAndPath(scheme, h, p, q, f) ==
  IF ~ValidHost(h, scheme \in SpecialSchemes) THEN BadURL
  ELSE [ok |-> TRUE, scheme |-> scheme, opaque |-> FALSE, hasHost |-> TRUE, host |-> h,
        path |-> IF ~p.has /\ scheme \notin SpecialSchemes THEN <<>>
                 ELSE PathState(<<>>, Split(p.s)),
        hasQuery |-> q.has, query |-> q.s, hasHash |-> f.has, hash |-> f.s]

\* rest is what follows "scheme://": the host and the path.
Authority(scheme, rest, q, f) ==
  HostAndPath(scheme, Before(rest, "/"), After(rest, "/"), q, f)

\* The path of the base without its last segment.
Directory(path) == IF path = <<>> THEN <<>> ELSE SubSeq(path, 1, Len(path) - 1)

\* The relative state: rest (no scheme, not starting with "//") against base.
Relative(base, rest, q, f) ==
  IF base.opaque THEN BadURL
  ELSE IF rest = <<>>
  THEN [base EXCEPT !.hasQuery = IF q.has THEN TRUE ELSE base.hasQuery,
                    !.query = IF q.has THEN q.s ELSE base.query,
                    !.hasHash = f.has, !.hash = f.s]
  ELSE [base EXCEPT !.path = IF StartsWith(rest, "/")
                             THEN PathState(<<>>, Split(Tail(rest)))
                             ELSE PathState(Directory(base.path), Split(rest)),
                    !.hasQuery = q.has, !.query = q.s, !.hasHash = f.has, !.hash = f.s]

\* A URL of a scheme that is not special, rest following the scheme.
NotSpecial(scheme, rest, q, f) ==
  IF StartsWith2(rest, "/", "/") THEN Authority(scheme, From(rest, 3), q, f)
  ELSE [ok |-> TRUE, scheme |-> scheme, opaque |-> ~StartsWith(rest, "/"),
        hasHost |-> FALSE, host |-> <<>>,
        path |-> IF StartsWith(rest, "/") THEN PathState(<<>>, Split(Tail(rest)))
                 ELSE <<rest>>,
        hasQuery |-> q.has, query |-> q.s, hasHash |-> f.has, hash |-> f.s]

\* s starts with a scheme, rest follows it.
WithScheme(scheme, rest, q, f, base) ==
  IF scheme \notin SpecialSchemes THEN NotSpecial(scheme, rest, q, f)
  ELSE IF base.ok /\ base.scheme = scheme /\ ~StartsWith2(rest, "/", "/")
  THEN Relative(base, rest, q, f)
  ELSE Authority(scheme, StripSlashes(rest), q, f)

\* s has no scheme, neither query nor fragment.
NoScheme(s, q, f, base) ==
  IF ~base.ok THEN BadURL
  ELSE IF ~StartsWith2(s, "/", "/") THEN Relative(base, s, q, f)
  ELSE Authority(base.scheme,
                 IF base.scheme \in SpecialSchemes THEN StripSlashes(s) ELSE From(s, 3),
                 q, f)

\* s without its query q and its fragment f.
ParseParts(s, q, f, base) ==
  IF s # <<>> /\ IsScheme(s[1]) THEN WithScheme(s[1], Tail(s), q, f, base)
  ELSE NoScheme(s, q, f, base)

\* s without its fragment f.
ParseNoHash(s, f, base) == ParseParts(Before(s, "?"), After(s, "?"), f, base)

\* new URL(s, base): base is a parsed URL, or BadURL when no base is given.
URLParse(s, base) == ParseNoHash(Before(s, "#"), After(s, "#"), base)

\* urlObj.pathname
Pathname(u) == IF u.opaque THEN u.path[1] ELSE JoinPath(u.path)

\* urlObj.hostname (the model has no ports: also urlObj.host)
Hostname(u) == u.host

\* urlObj.href
Href(u) ==
  <<u.scheme>> \o (IF u.hasHost THEN <<"/", "/">> \o u.host ELSE <<>>) \o Pathname(u)
    \o (IF u.hasQuery THEN <<"?">> \o u.query ELSE <<>>)
    \o (IF u.hasHash THEN <<"#">> \o u.hash ELSE <<>>)

\* ------------------------------------------------------------------------
\* The helpers of the baseline tool
\* ------------------------------------------------------------------------

\* new URL(s) with no base
ParseAbs(s) == URLParse(s, BadURL)

\* isValidUrl
isValidUrl(string) == ParseAbs(string).ok

HostnameOrNull(urlObj) == IF urlObj.ok THEN Hostname(urlObj) ELSE Null

\* getDomain: the hostname, null when the URL does not parse
getDomain(url) == HostnameOrNull(ParseAbs(url))

\* url.startsWith('mailto:') || url.startsWith('tel:') || url.startsWith('javascript:')
RejectedSchemes == {"mailto:", "tel:", "javascript:"}

\* `${base.protocol}//${base.host}${url}`, null when new URL(baseUrl) throws
OntoBase(base, url) ==
  IF ~base.ok THEN Null ELSE <<base.scheme>> \o <<"/", "/">> \o base.host \o url

\* fullUrl.hash = ''; return fullUrl.href, null when new URL throws
HrefWithoutHash(fullUrl) ==
  IF ~fullUrl.ok THEN Null ELSE Href([fullUrl EXCEPT !.hasHash = FALSE, !.hash = <<>>])

\* new URL(url, baseUrl), which throws when either does not parse
ParseOnto(url, base) == IF base.ok THEN URLParse(url, base) ELSE BadURL

\* normalizeUrl: null when the link is skipped or new URL throws
normalizeUrl(url, baseUrl) ==
  IF StartsWith(url, "/") THEN OntoBase(ParseAbs(baseUrl), url)
  ELSE IF StartsWith(url, "#") THEN Null
  ELSE IF url # <<>> /\ url[1] \in RejectedSchemes THEN Null
  ELSE HrefWithoutHash(ParseOnto(url, ParseAbs(baseUrl)))

\* pathname.split('/').filter(part => part.length > 0)
NonEmptySegments(pathname) == SelectSeq(Split(pathname), LAMBDA part : part # <<>>)

PathDepthOfParsed(urlObj) ==
  IF urlObj.ok THEN Len(NonEmptySegments(Pathname(urlObj))) ELSE 0

\* A bug to detect: the empty parts of the split are counted too.
PathDepthWithEmpty(url) ==
  IF ParseAbs(url).ok THEN Len(Split(Pathname(ParseAbs(url)))) ELSE 0

\* getPathDepth: 0 when the URL does not parse
getPathDepth(url) == PathDepthOfParsed(ParseAbs(url))

\* [a-zA-Z0-9.-]: the characters createSafeFileName of the baseline tool keeps
KeptChars == {"a", "b", "c", "f", "h", "x", ".", "-"}

\* filename.replace(/[^a-zA-Z0-9.-]/g, '_')
ReplaceUnsafe(s) == [i \in 1..Len(s) |-> IF s[i] \in KeptChars THEN s[i] ELSE "_"]

\* filename.replace(/_+/g, '_')
RECURSIVE CollapseUnderscores(_)
CollapseUnderscores(s) ==
  IF Len(s) <= 1 THEN s
  ELSE IF s[1] = "_" /\ s[2] = "_" THEN CollapseUnderscores(Tail(s))
  ELSE <<s[1]>> \o CollapseUnderscores(Tail(s))

TrimLeading(s) == IF StartsWith(s, "_") THEN Tail(s) ELSE s

TrimTrailing(s) == IF EndsWith(s, "_") THEN SubSeq(s, 1, Len(s) - 1) ELSE s

\* filename.replace(/^_|_$/g, '')
TrimUnderscore(s) == TrimTrailing(TrimLeading(s))

\* return filename || 'index'
OrDefault(filename, default) == IF filename = <<>> THEN default ELSE filename

SafeFileNameOfParsed(urlObj) ==
  IF ~urlObj.ok THEN <<"invalid_url">>
  ELSE OrDefault(TrimUnderscore(CollapseUnderscores(ReplaceUnsafe(
                   Hostname(urlObj) \o Pathname(urlObj)))), <<"index">>)

\* createSafeFileName of the baseline tool
createSafeFileName(url) == SafeFileNameOfParsed(ParseAbs(url))

\* ------------------------------------------------------------------------
\* The site being crawled: what the user types and what the pages hold
\* ------------------------------------------------------------------------

\* The longest list of anchors a page of the model holds.
MaxLinks == 2

\* The longest pending queue of generatePageReport in the model: a page whose
\* links would make toVisit longer is not a page of the modelled site.
MaxPending == 3

Origin == <<"http:", "/", "/", "h">>

\* The start URLs a user types (each passes isValidUrl).
StartUrls == {Origin, Origin \o <<"/">>}

\* The values of a.href on the pages of the site: the browser has resolved
\* each anchor against the document, fragments are kept.
Hrefs ==
  {Origin \o <<"/">>,
   Origin \o <<"/", "a">>,
   Origin \o <<"/", "a", "#", "f">>,
   Origin \o <<"/", "a", "/", "b">>,
   <<"http:", "/", "/", "x", "/">>,
   <<"mailto:", "a">>}

\* The values of document.links on the pages generatePageReport crawls.
ReportHrefs ==
  {Origin \o <<"/", "a">>,
   Origin \o <<"/", "a", "#", "f">>,
   Origin \o <<"/", "a", "/", "b">>,
   <<"http:", "/", "/", "x", "/">>}

\* What <link rel="canonical"> of a page gives; the pages generatePageReport
\* crawls declare none.
Canonicals == {Null, Origin \o <<"/">>}

\* The start page of the site declares a canonical link or none, its other
\* pages none.
CanonicalsOf(url, start) == IF url = start THEN Canonicals ELSE {Null}

ReportCanonicals == {Null}

\* The baseline folder of the run, path.join(BASELINE_DIR, folderName), as
\* one path prefix.
FolderPath == <<"baseline/h-T/">>

\* Every URL a crawl of the site can hold: the start URL and what the links
\* of the pages normalize to.
SiteUrls == StartUrls \cup Hrefs \cup ({normalizeUrl(link, Origin) : link \in Hrefs} \ {Null})

\* normalizeUrl, getDomain, getPathDepth, the pathname and createSafeFileName
\* on the links and URLs of the site, each value computed once.
NormalizedLink == [link \in Hrefs, page \in SiteUrls |-> normalizeUrl(link, page)]

DomainOf == [url \in SiteUrls |-> getDomain(url)]

PathDepthOf == [url \in SiteUrls |-> getPathDepth(url)]

PathnameOf == [url \in SiteUrls |-> Pathname(ParseAbs(url))]

SafeFileNameOf == [url \in SiteUrls |-> createSafeFileName(url)]

\* A link to a page of the crawled site, and one to another site.
SameSite(link) == DomainOf[link] = DomainOf[Origin]

External(link) == DomainOf[link] \notin {<<>>, Null, DomainOf[Origin]}

\* The documents with three anchors: one to another site and two to pages
\* of the site that are different pages once the fragment is dropped.
SeedDocuments(hrefs) ==
  {links \in [1..3 -> hrefs] :
     \E e \in 1..3 :
       /\ External(links[e])
       /\ \A i \in (1..3) \ {e} : SameSite(links[i])
       /\ \A i, j \in (1..3) \ {e} :
            i # j => NormalizedLink[links[i], Origin] # NormalizedLink[links[j], Origin]}

\* The anchors of one page, in document order.
LinkLists == UNION {[1..n -> Hrefs] : n \in 0..MaxLinks} \cup SeedDocuments(Hrefs)

\* The values of document.links of one page of generatePageReport.
ReportLinkLists ==
  UNION {[1..n -> ReportHrefs] : n \in 0..MaxLinks} \cup SeedDocuments(ReportHrefs)

VARIABLES
  prog,         \* the function that runs
  pc,           \* where it is
  startUrl,     \* its argument
  currentUrl,   \* the URL dequeued last
  visitedUrls,  \* crawlAndScreenshot: const visitedUrls = new Set()
  urlsToVisit,  \* crawlAndScreenshot: const urlsToVisit = [startUrl]
  pages,        \* crawlAndScreenshot: const pages = []
  pageMeta,     \* crawlAndScreenshot: title and canonical of the page being captured
  images,       \* the disk: path -> Folder, the URL an image shows, or a report
  pagesJson,    \* pages.json of the baseline folder: no file, or one with its text
  visited,      \* generatePageReport: const visited = new Set()
  toVisit,      \* generatePageReport: const toVisit = [startUrl]
  pageDetails,  \* generatePageReport: const pageDetails = []
  mainPages,    \* generatePageReport: const mainPages = new Set()
  subPages,     \* generatePageReport: const subPages = new Set()
  errorPages,   \* generatePageReport: const errorPages = new Set()
  takeScreenshots, \* generatePageReport: its argument, false once the folder failed
  navigated,    \* history: the URLs given to page.goto, in order
  enqueued,     \* history: the URLs put into the pending queue, in order
  depths,       \* history: for each of them, how many links it is from the start URL
  skips,        \* history: how often a dequeued URL was skipped as visited
  duplicates,   \* history: how many links were not pushed as visited or pending
  thrown,       \* history: the errors thrown by page captures, <<url, message>>
  rawLink,      \* normalizeUrl: its argument url, a link of the page
  rawOther,     \* normalizeUrl: another link of the same page
  pageUrl,      \* normalizeUrl: its argument baseUrl
  result,       \* what normalizeUrl returned for rawLink
  otherResult,  \* what normalizeUrl returned for rawOther
  resultAgain,  \* what normalizeUrl returned for result
  baselinePages,       \* compareMenu: the parsed pages.json
  successPages,        \* compareMenu: baselinePages.filter(p => p.status === 'success')
  processedCount,      \* compareMenu: how many of successPages the loop has done
  newImage,            \* compareMenu: the size of the screenshot just taken
  matchCount,          \* compareMenu: let matchCount = 0
  changeCount,         \* compareMenu: let changeCount = 0
  errorCount,          \* compareMenu: let errorCount = 0
  changedPages,        \* compareMenu: const changedPages = []
  unchangedPages,      \* compareMenu: const unchangedPages = []
  failedPages,         \* compareMenu: const errorPages = []
  totalPixelsCompared, \* compareMenu: let totalPixelsCompared = 0
  totalDiffPixels,     \* compareMenu: let totalDiffPixels = 0
  successfulComparisons, \* compareMenu: let successfulComparisons = 0
  overallDiffPercentage, \* compareMenu: hundredths of a percent, Null until computed
  compared,     \* history: what pixelmatch returned, page by page
  folders,      \* the names of the directories of BASELINE_DIR
  created,      \* history: the hostname and the time of the crawl that made each
  categorized,  \* compareMenu: const categorized = categorizeFolders(folders)
  browser,      \* the browser of the run: "none", "open" or "closed"
  closes        \* history: how often browser.close() was called in the run

crawlVars == <<visitedUrls, urlsToVisit, pages, pageMeta, images, pagesJson>>

reportVars ==
  <<visited, toVisit, pageDetails, mainPages, subPages, errorPages, takeScreenshots>>

histVars == <<navigated, enqueued, depths, skips, duplicates, thrown>>

normVars == <<rawLink, rawOther, pageUrl, result, otherResult, resultAgain>>

listVars == <<folders, created, categorized>>

runVars == <<browser, closes>>

compareVars ==
  <<baselinePages, successPages, processedCount, newImage, matchCount, changeCount,
    errorCount, changedPages, unchangedPages, failedPages, totalPixelsCompared,
    totalDiffPixels, successfulComparisons, overallDiffPercentage, compared>>

\* No call of normalizeUrl is being followed.
NormIdle ==
  /\ rawLink = Null /\ rawOther = Null /\ pageUrl = Null
  /\ result = Null /\ otherResult = Null /\ resultAgain = Null

\* The baselines are not being listed.
ListIdle == folders = {} /\ created = {} /\ categorized = <<>>

\* No comparison pass runs.
CompareIdle ==
  /\ baselinePages = <<>> /\ successPages = <<>>
  /\ processedCount = 0 /\ newImage = Null
  /\ matchCount = 0 /\ changeCount = 0 /\ errorCount = 0
  /\ changedPages = <<>> /\ unchangedPages = <<>> /\ failedPages = <<>>
  /\ totalPixelsCompared = 0 /\ totalDiffPixels = 0 /\ successfulComparisons = 0
  /\ overallDiffPercentage = Null
  /\ compared = <<>>

NoMeta == [title |-> Null, canonical |-> Null]

\* pages.json before fs.writeFileSync (fs.existsSync is false), the file
\* writeFileSync leaves, and what fs.readFileSync gives of it
NoFile == <<>>

FileWith(text) == <<text>>

ReadFileSync(file) == file[1]

\* No file: a function with an empty domain.
NoFiles == [f \in {} |-> Null]

WriteFile(fs, name, content) ==
  [f \in DOMAIN fs \cup {name} |-> IF f = name THEN content ELSE fs[f]]

\* urlsToVisit.includes(url)
Includes(queue, url) == \E i \in 1..Len(queue) : queue[i] = url

\* ------------------------------------------------------------------------
\* crawlAndScreenshot
\* ------------------------------------------------------------------------

\* What the disk holds at the path of a directory.
Folder == <<"directory">>

\* The state when the while loop is first reached: the browser is launched
\* and the baseline folder made.
InitCrawl ==
  /\ browser = "open" /\ closes = 0
  /\ prog = "crawlAndScreenshot"
  /\ pc = "loop"
  /\ startUrl \in StartUrls
  /\ currentUrl = Null
  /\ visitedUrls = {}
  /\ urlsToVisit = <<startUrl>>
  /\ pages = <<>>
  /\ pageMeta = NoMeta
  /\ images = WriteFile(NoFiles, FolderPath, Folder)
  /\ pagesJson = NoFile
  /\ navigated = <<>>
  /\ enqueued = <<startUrl>>
  /\ depths = <<0>>
  /\ skips = 0
  /\ duplicates = 0
  /\ thrown = <<>>
  /\ visited = {} /\ toVisit = <<>> /\ pageDetails = <<>>
  /\ mainPages = {} /\ subPages = {} /\ errorPages = {}
  /\ takeScreenshots = FALSE
  /\ NormIdle /\ ListIdle /\ CompareIdle

\* if (visitedUrls.has(currentUrl)) continue
CrawlSeen(url, seen) == url \in seen

\* A bug to detect: the URL pushed last is taken first.
PopLast(queue) == <<queue[Len(queue)], SubSeq(queue, 1, Len(queue) - 1)>>

\* urlsToVisit.shift(): the first URL of the queue, and the queue it leaves
Shift(queue) == <<Head(queue), Tail(queue)>>

\* const currentUrl = urlsToVisit.shift(); the visited check; visitedUrls.add
CrawlDequeue ==
  /\ prog = "crawlAndScreenshot" /\ pc = "loop"
  /\ urlsToVisit # <<>>
  /\ currentUrl' = Shift(urlsToVisit)[1]
  /\ urlsToVisit' = Shift(urlsToVisit)[2]
  /\ IF CrawlSeen(Shift(urlsToVisit)[1], visitedUrls)
     THEN /\ skips' = skips + 1
          /\ UNCHANGED <<pc, visitedUrls>>
     ELSE /\ visitedUrls' = visitedUrls \cup {Shift(urlsToVisit)[1]}
          /\ pc' = "goto"
          /\ UNCHANGED skips
  /\ UNCHANGED <<reportVars, normVars, listVars, compareVars>>
  /\ UNCHANGED <<prog, startUrl, pages, pageMeta, images, pagesJson, navigated, enqueued, depths,
                 duplicates, thrown>>
  /\ UNCHANGED runVars

\* A bug to detect: the page type follows the depth of the path, as in
\* categorizePage.
CrawlPageTypeByDepth(url, start) == IF PathDepthOf[url] <= 1 THEN "main" ELSE "sub"

\* The page type of crawlAndScreenshot
CrawlPageType(url, start) == IF url = start THEN "main" ELSE "sub"

\* The catch block: the record of a failed page
ErrorPageInfo(url, start, message) ==
  [url |-> url,
   type |-> CrawlPageType(url, start),
   pathDepth |-> PathDepthOf[url],
   path |-> PathnameOf[url],
   status |-> "error",
   title |-> Null,
   screenshotPath |-> Null,
   errorMessage |-> message,
   canonical |-> url]

\* The record of a captured page
SuccessPageInfo(url, start, title, screenshotPath, canonical) ==
  [url |-> url,
   type |-> CrawlPageType(url, start),
   pathDepth |-> PathDepthOf[url],
   path |-> PathnameOf[url],
   status |-> "success",
   title |-> title,
   screenshotPath |-> screenshotPath,
   errorMessage |-> Null,
   canonical |-> IF canonical = Null THEN url ELSE canonical]

\* A bug to detect: the catch block records nothing.
CrawlCatchSilent(message) ==
  /\ pc' = "loop"
  /\ pageMeta' = NoMeta
  /\ UNCHANGED pages

\* catch (error): the failed page's record is pushed and the loop goes on
CrawlCatch(message) ==
  /\ pages' = Append(pages, ErrorPageInfo(currentUrl, startUrl, message))
  /\ pc' = "loop"
  /\ pageMeta' = NoMeta

\* A step of the try block throws: control goes to the catch block
CrawlThrow(message) ==
  /\ thrown' = Append(thrown, <<currentUrl, message>>)
  /\ CrawlCatch(message)

\* await page.goto(currentUrl, ...)
CrawlGoto ==
  /\ prog = "crawlAndScreenshot" /\ pc = "goto"
  /\ navigated' = Append(navigated, currentUrl)
  /\ \E ok \in BOOLEAN :
       IF ok THEN pc' = "info" /\ UNCHANGED <<pages, pageMeta, thrown>>
       ELSE CrawlThrow(<<"navigation failed">>)
  /\ UNCHANGED <<reportVars, normVars, listVars, compareVars>>
  /\ UNCHANGED <<prog, startUrl, currentUrl, visitedUrls, urlsToVisit, images, pagesJson,
                 enqueued, depths, skips, duplicates>>
  /\ UNCHANGED runVars

\* await page.title(); await page.evaluate(canonical)
CrawlInfo ==
  /\ prog = "crawlAndScreenshot" /\ pc = "info"
  /\ \E ok \in BOOLEAN, canonical \in CanonicalsOf(currentUrl, startUrl) :
       IF ok
       THEN /\ pageMeta' = [title |-> <<"T">>, canonical |-> canonical]
            /\ pc' = "screenshot"
            /\ UNCHANGED <<pages, thrown>>
       ELSE CrawlThrow(<<"extraction failed">>)
  /\ UNCHANGED <<reportVars, normVars, listVars, compareVars>>
  /\ UNCHANGED <<prog, startUrl, currentUrl, visitedUrls, urlsToVisit, images, pagesJson,
                 navigated, enqueued, depths, skips, duplicates>>
  /\ UNCHANGED runVars

\* path.join(folderPath, `${fileName}.png`)
ScreenshotPath(url) == FolderPath \o SafeFileNameOf[url] \o <<".png">>

\* await page.screenshot({ path: screenshotPath, fullPage: true }); pages.push(pageInfo)
CrawlScreenshot ==
  /\ prog = "crawlAndScreenshot" /\ pc = "screenshot"
  /\ \E ok \in BOOLEAN :
       IF ok
       THEN /\ images' = WriteFile(images, ScreenshotPath(currentUrl), currentUrl)
            /\ pages' = Append(pages, SuccessPageInfo(currentUrl, startUrl, pageMeta.title,
                                        ScreenshotPath(currentUrl), pageMeta.canonical))
            /\ pc' = "links"
            /\ UNCHANGED <<pageMeta, thrown>>
       ELSE CrawlThrow(<<"screenshot failed">>) /\ UNCHANGED images
  /\ UNCHANGED <<reportVars, normVars, listVars, compareVars>>
  /\ UNCHANGED <<prog, startUrl, currentUrl, visitedUrls, urlsToVisit, pagesJson,
                 navigated, enqueued, depths, skips, duplicates>>
  /\ UNCHANGED runVars

\* Bugs to detect: the pending check, or the visited check, of the push is
\* lost.
CrawlAcceptsPending(normalizedUrl, domain, seen, queue) ==
  /\ normalizedUrl # Null
  /\ DomainOf[normalizedUrl] = domain
  /\ normalizedUrl \notin seen

\* A bug to detect: the hostname of the link is not compared.
CrawlAcceptsAnyDomain(normalizedUrl, domain, seen, queue) ==
  /\ normalizedUrl # Null
  /\ normalizedUrl \notin seen
  /\ ~Includes(queue, normalizedUrl)

CrawlAcceptsVisited(normalizedUrl, domain, seen, queue) ==
  /\ normalizedUrl # Null
  /\ DomainOf[normalizedUrl] = domain
  /\ ~Includes(queue, normalizedUrl)

\* The test under which a discovered link is pushed
CrawlAccepts(normalizedUrl, domain, seen, queue) ==
  /\ normalizedUrl # Null
  /\ DomainOf[normalizedUrl] = domain
  /\ normalizedUrl \notin seen
  /\ ~Includes(queue, normalizedUrl)

\* for (const link of links) { ... urlsToVisit.push(normalizedUrl) }
RECURSIVE ProcessLinks(_, _, _, _, _)
ProcessLinks(links, queue, seen, current, domain) ==
  IF links = <<>> THEN queue
  ELSE LET normalizedUrl == NormalizedLink[Head(links), current]
       IN ProcessLinks(Tail(links),
                       IF CrawlAccepts(normalizedUrl, domain, seen, queue)
                       THEN Append(queue, normalizedUrl) ELSE queue,
                       seen, current, domain)

\* History: the links of a page that are not pushed because their URL is
\* visited or pending already.
RECURSIVE CountDuplicates(_, _, _, _, _)
CountDuplicates(links, queue, seen, current, domain) ==
  IF links = <<>> THEN 0
  ELSE (IF /\ NormalizedLink[Head(links), current] # Null
           /\ \/ NormalizedLink[Head(links), current] \in seen
              \/ Includes(queue, NormalizedLink[Head(links), current])
        THEN 1 ELSE 0)
       + CountDuplicates(Tail(links),
                         ProcessLinks(<<Head(links)>>, queue, seen, current, domain),
                         seen, current, domain)

\* History: how many links from the start URL the page url was found, given
\* the URLs enqueued so far and their distances.
DepthOf(url, queued, distances) ==
  distances[CHOOSE i \in 1..Len(queued) : queued[i] = url]

\* await page.evaluate(anchors); the loop over the links
CrawlLinks ==
  /\ prog = "crawlAndScreenshot" /\ pc = "links"
  /\ \E ok \in BOOLEAN, links \in LinkLists :
       IF ok
       THEN LET queue == ProcessLinks(links, urlsToVisit, visitedUrls, currentUrl,
                                      DomainOf[startUrl])
            IN /\ urlsToVisit' = queue
               /\ enqueued' = enqueued \o SubSeq(queue, Len(urlsToVisit) + 1, Len(queue))
               /\ depths' = depths \o [k \in 1..(Len(queue) - Len(urlsToVisit)) |->
                                       DepthOf(currentUrl, enqueued, depths) + 1]
               /\ duplicates' = duplicates + CountDuplicates(links, urlsToVisit, visitedUrls,
                                                             currentUrl, DomainOf[startUrl])
               /\ pc' = "loop"
               /\ pageMeta' = NoMeta
               /\ UNCHANGED <<pages, thrown>>
       ELSE /\ CrawlThrow(<<"link extraction failed">>)
            /\ UNCHANGED <<urlsToVisit, enqueued, depths, duplicates>>
  /\ UNCHANGED <<reportVars, normVars, listVars, compareVars>>
  /\ UNCHANGED <<prog, startUrl, currentUrl, visitedUrls, images, pagesJson, navigated, skips>>
  /\ UNCHANGED runVars

\* The keys of a page record, in the order of the object literal, and the
\* ones whose value is a number or may be null.
PageKeys ==
  <<"url", "type", "pathDepth", "path", "status", "title", "screenshotPath",
    "errorMessage", "canonical">>

NumberKeys == {"pathDepth"}

NullableKeys == {"title", "screenshotPath", "errorMessage"}

\* A bug to detect: null is written as the text null.
JsonNullableAsText(value) ==
  IF value = Null THEN [kind |-> "string", value |-> <<"n", "u", "l", "l">>]
  ELSE [kind |-> "string", value |-> value]

\* JSON.stringify of a value that is a string or null
JsonNullable(value) ==
  IF value = Null THEN [kind |-> "null"] ELSE [kind |-> "string", value |-> value]

\* JSON.stringify of the value of one key of a page record
JsonValue(key, value) ==
  IF key \in NumberKeys THEN [kind |-> "number", value |-> value]
  ELSE IF key \in NullableKeys THEN JsonNullable(value)
  ELSE [kind |-> "string", value |-> value]

\* JSON.stringify(pages, null, 2): an array of objects, each the members of
\* a record in key order
JsonStringify(records) ==
  [i \in 1..Len(records) |->
     [k \in 1..Len(PageKeys) |-> <<PageKeys[k], JsonValue(PageKeys[k], records[i][PageKeys[k]])>>]]

\* JSON.parse of a value
JsonParseValue(json) == IF json.kind = "null" THEN Null ELSE json.value

\* JSON.parse of an object: the value of a key is that of its last member
JsonParseObject(members) ==
  [key \in {members[k][1] : k \in 1..Len(members)} |->
     JsonParseValue(members[CHOOSE k \in 1..Len(members) :
                              /\ members[k][1] = key
                              /\ \A later \in (k + 1)..Len(members) : members[later][1] # key][2])]

\* JSON.parse(fs.readFileSync(pagesPath, 'utf-8'))
JsonParse(text) == [i \in 1..Len(text) |-> JsonParseObject(text[i])]

\* A bug to detect: pages.json is saved while URLs are still pending.
CrawlFinishEarly ==
  /\ prog = "crawlAndScreenshot" /\ pc = "loop"
  /\ pagesJson' = FileWith(JsonStringify(pages))
  /\ pc' = "done"
  /\ UNCHANGED <<reportVars, normVars, listVars, compareVars>>
  /\ UNCHANGED <<prog, startUrl, currentUrl, visitedUrls, urlsToVisit, pages, pageMeta, images>>
  /\ UNCHANGED histVars
  /\ browser' = "closed" /\ closes' = closes + 1

\* The loop ends: await browser.close(); fs.writeFileSync(pagesJsonPath, ...)
CrawlFinish ==
  /\ prog = "crawlAndScreenshot" /\ pc = "loop"
  /\ urlsToVisit = <<>>
  /\ pagesJson' = FileWith(JsonStringify(pages))
  /\ pc' = "done"
  /\ UNCHANGED <<reportVars, normVars, listVars, compareVars>>
  /\ UNCHANGED <<prog, startUrl, currentUrl, visitedUrls, urlsToVisit, pages, pageMeta, images>>
  /\ UNCHANGED histVars
  /\ browser' = "closed" /\ closes' = closes + 1

NextCrawl ==
  \/ CrawlDequeue
  \/ CrawlGoto
  \/ CrawlInfo
  \/ CrawlScreenshot
  \/ CrawlLinks
  \/ CrawlFinish

\* ------------------------------------------------------------------------
\* generatePageReport
\* ------------------------------------------------------------------------

\* pathname.replace(/\/$/, '')
StripTrailingSlash(s) == IF EndsWith(s, "/") THEN SubSeq(s, 1, Len(s) - 1) ELSE s

\* The path segments categorizePage and generatePageReport count
PathSegmentsOfParsed(urlObj) == NonEmptySegments(StripTrailingSlash(Pathname(urlObj)))

PathSegments(url) == PathSegmentsOfParsed(ParseAbs(url))

PageTypeOfParsed(urlObj) ==
  IF ~urlObj.ok THEN "main"
  ELSE IF Len(PathSegmentsOfParsed(urlObj)) <= 1 THEN "main" ELSE "sub"

\* categorizePage
categorizePage(url) == PageTypeOfParsed(ParseAbs(url))

\* fileName.replace(/[^a-zA-Z0-9]/g, '_')
ReplaceNonAlnum(s) ==
  [i \in 1..Len(s) |-> IF s[i] \in KeptChars \ {".", "-"} THEN s[i] ELSE "_"]

ReportFileNameOfParsed(urlObj) ==
  IF ~urlObj.ok THEN <<"invalid_url">>
  ELSE OrDefault(TrimUnderscore(CollapseUnderscores(ReplaceNonAlnum(
                   Hostname(urlObj) \o Pathname(urlObj)))), <<"homepage">>)

\* createSafeFileName of the report tool
reportSafeFileName(url) == ReportFileNameOfParsed(ParseAbs(url))

PageTypeOf == [url \in SiteUrls |-> categorizePage(url)]

SegmentCountOf == [url \in SiteUrls |-> Len(PathSegments(url))]

ReportScreenshotPathOf ==
  [url \in SiteUrls |-> <<"screenshots_h_T/">> \o reportSafeFileName(url) \o <<".png">>]

\* The state when the while loop is first reached: the browser is launched;
\* takeScreenshots is false when it was not asked or the folder was not made.
InitReport ==
  /\ browser = "open" /\ closes = 0
  /\ prog = "generatePageReport"
  /\ pc = "loop"
  /\ startUrl \in StartUrls
  /\ currentUrl = Null
  /\ visited = {}
  /\ toVisit = <<startUrl>>
  /\ pageDetails = <<>>
  /\ mainPages = {} /\ subPages = {} /\ errorPages = {}
  /\ takeScreenshots \in BOOLEAN
  /\ navigated = <<>>
  /\ enqueued = <<startUrl>>
  /\ depths = <<>>
  /\ skips = 0
  /\ duplicates = 0
  /\ thrown = <<>>
  /\ visitedUrls = {} /\ urlsToVisit = <<>> /\ pages = <<>>
  /\ pageMeta = NoMeta /\ images = NoFiles /\ pagesJson = NoFile
  /\ NormIdle /\ ListIdle /\ CompareIdle

\* The record pushed when a URL is first dequeued
PendingPageDetail(url) ==
  [url |-> url,
   type |-> PageTypeOf[url],
   pathDepth |-> SegmentCountOf[url],
   path |-> PathnameOf[url],
   status |-> "pending",
   title |-> Null,
   canonical |-> Null,
   screenshotPath |-> Null,
   errorMessage |-> Null]

\* A bug to detect: the visited check of the loop is lost.
ReportSeenNever(url, seen) == FALSE

\* visited.has(currentUrl)
ReportSeen(url, seen) == url \in seen

\* const currentUrl = toVisit.shift(); if (!visited.has(currentUrl)) { ... push }
ReportDequeue ==
  /\ prog = "generatePageReport" /\ pc = "loop"
  /\ toVisit # <<>>
  /\ currentUrl' = Head(toVisit)
  /\ toVisit' = Tail(toVisit)
  /\ IF ReportSeen(Head(toVisit), visited)
     THEN /\ skips' = skips + 1
          /\ UNCHANGED <<pc, visited, mainPages, subPages, pageDetails>>
     ELSE /\ visited' = visited \cup {Head(toVisit)}
          /\ IF PageTypeOf[Head(toVisit)] = "main"
             THEN mainPages' = mainPages \cup {Head(toVisit)} /\ UNCHANGED subPages
             ELSE subPages' = subPages \cup {Head(toVisit)} /\ UNCHANGED mainPages
          /\ pageDetails' = Append(pageDetails, PendingPageDetail(Head(toVisit)))
          /\ pc' = "goto"
          /\ UNCHANGED skips
  /\ UNCHANGED <<crawlVars, normVars, listVars, compareVars>>
  /\ UNCHANGED <<prog, startUrl, errorPages, takeScreenshots, navigated, enqueued, depths,
                 duplicates, thrown>>
  /\ UNCHANGED runVars

\* A bug to detect: the catch block marks the record and forgets errorPages.
ReportCatchUncounted(message) ==
  /\ UNCHANGED errorPages
  /\ pageDetails' = [pageDetails EXCEPT ![Len(pageDetails)].status = "error",
                                        ![Len(pageDetails)].errorMessage = message]
  /\ pc' = "loop"

\* catch (error): the page is marked as an error page
ReportCatch(message) ==
  /\ errorPages' = errorPages \cup {currentUrl}
  /\ pageDetails' = [pageDetails EXCEPT ![Len(pageDetails)].status = "error",
                                        ![Len(pageDetails)].errorMessage = message]
  /\ pc' = "loop"

\* A step of the try block throws: control goes to the catch block
ReportThrow(message) ==
  /\ thrown' = Append(thrown, <<currentUrl, message>>)
  /\ ReportCatch(message)

\* await page.goto(currentUrl, ...)
ReportGoto ==
  /\ prog = "generatePageReport" /\ pc = "goto"
  /\ navigated' = Append(navigated, currentUrl)
  /\ \E ok \in BOOLEAN :
       IF ok THEN pc' = "evaluate" /\ UNCHANGED <<errorPages, pageDetails, thrown>>
       ELSE ReportThrow(<<"navigation failed">>)
  /\ UNCHANGED <<crawlVars, normVars, listVars, compareVars>>
  /\ UNCHANGED <<prog, startUrl, currentUrl, visited, toVisit, mainPages, subPages,
                 takeScreenshots, enqueued, depths, skips, duplicates>>
  /\ UNCHANGED runVars

\* new URL(link).hostname === hostname, false when new URL throws
IsInternal(link, hostname) == DomainOf[link] # Null /\ DomainOf[link] = hostname

\* internalLinks, filteredLinks, newLinks: the links pushed to toVisit
NewLinks(links, hostname, seen) ==
  SelectSeq(links, LAMBDA link : /\ IsInternal(link, hostname)
                                 /\ ~EndsWith(link, "#")
                                 /\ link \notin seen)

\* await page.evaluate(...); the record's update; the screenshot, whose
\* failure is only logged; toVisit.push(...newLinks)
ReportEvaluate ==
  /\ prog = "generatePageReport" /\ pc = "evaluate"
  /\ \E ok \in BOOLEAN, canonical \in ReportCanonicals, links \in ReportLinkLists,
        shot \in IF takeScreenshots THEN BOOLEAN ELSE {FALSE} :
       IF ok
       THEN /\ Len(toVisit \o NewLinks(links, DomainOf[startUrl], visited)) <= MaxPending
            /\ pageDetails' =
                 [pageDetails EXCEPT
                    ![Len(pageDetails)].status = "success",
                    ![Len(pageDetails)].title = <<"T">>,
                    ![Len(pageDetails)].canonical = canonical,
                    ![Len(pageDetails)].screenshotPath =
                       IF shot THEN ReportScreenshotPathOf[currentUrl] ELSE Null]
            /\ toVisit' = toVisit \o NewLinks(links, DomainOf[startUrl], visited)
            /\ enqueued' = enqueued \o NewLinks(links, DomainOf[startUrl], visited)
            /\ UNCHANGED depths
            /\ pc' = "loop"
            /\ UNCHANGED <<errorPages, thrown>>
       ELSE ReportThrow(<<"extraction failed">>) /\ UNCHANGED <<toVisit, enqueued, depths>>
  /\ UNCHANGED <<crawlVars, normVars, listVars, compareVars>>
  /\ UNCHANGED <<prog, startUrl, currentUrl, visited, mainPages, subPages, takeScreenshots,
                 navigated, skips, duplicates>>
  /\ UNCHANGED runVars

\* The loop ends: await browser.close(); return the summary
ReportFinish ==
  /\ prog = "generatePageReport" /\ pc = "loop"
  /\ toVisit = <<>>
  /\ pc' = "done"
  /\ UNCHANGED <<crawlVars, normVars, listVars, compareVars>>
  /\ UNCHANGED reportVars
  /\ UNCHANGED <<prog, startUrl, currentUrl>>
  /\ UNCHANGED histVars
  /\ browser' = "closed" /\ closes' = closes + 1

NextReport ==
  \/ ReportDequeue
  \/ ReportGoto
  \/ ReportEvaluate
  \/ ReportFinish

vars ==
  <<prog, pc, startUrl, currentUrl, visitedUrls, urlsToVisit, pages, pageMeta, images,
    pagesJson, visited, toVisit, pageDetails, mainPages, subPages, errorPages,
    takeScreenshots, navigated, enqueued, depths, skips, duplicates, thrown, normVars, listVars,
    compareVars, runVars>>

SpecCrawl == InitCrawl /\ [][NextCrawl]_vars

SpecReport == InitReport /\ [][NextReport]_vars

\* Either crawl loop
SpecCrawlers == (InitCrawl \/ InitReport) /\ [][NextCrawl \/ NextReport]_vars

\* The crawl loop runs on while it can: every await settles, by its result
\* or by its timeout.
SpecCrawlFair == InitCrawl /\ [][NextCrawl]_vars /\ WF_vars(NextCrawl)

\* ------------------------------------------------------------------------
\* The frontier and the manifest of a crawl
\* ------------------------------------------------------------------------

\* How often url occurs in the sequence seq.
Occurrences(seq, url) == Cardinality({i \in 1..Len(seq) : seq[i] = url})

NoRepeat(seq) == \A i, j \in 1..Len(seq) : seq[i] = seq[j] => i = j

\* C1: in both crawl loops no URL string is given to page.goto more than
\* once, however many pages link to it and however often.
C1_NoUrlNavigatedTwice == NoRepeat(navigated)

\* A crawl of generatePageReport that ended after a URL was pending several
\* times and skipped when dequeued again.
C1_Witness ==
  /\ prog = "generatePageReport" /\ pc = "done"
  /\ skips >= 1
  /\ Len(navigated) >= 3

C2_Frontier ==
  /\ NoRepeat(urlsToVisit)
  /\ \A i \in 1..Len(urlsToVisit) : urlsToVisit[i] \notin visitedUrls
  /\ skips = 0

\* C2: in crawlAndScreenshot the visited set only grows, the pending queue
\* holds no URL twice and no visited URL, and the skip branch of the loop is
\* never taken.
C2_FrontierInvariant == [](C2_Frontier) /\ [][visitedUrls \subseteq visitedUrls']_vars

\* Links to visited or pending URLs were found and three pages visited.
C2_Witness ==
  /\ prog = "crawlAndScreenshot" /\ pc = "done"
  /\ duplicates >= 2
  /\ Cardinality(visitedUrls) >= 3

RecordsOf(records, url) == {i \in 1..Len(records) : records[i].url = url}

\* C3: when crawlAndScreenshot finishes, pages holds exactly one record per
\* visited URL, with status success or error, whichever step failed.
C3_OneRecordPerVisitedUrl ==
  (prog = "crawlAndScreenshot" /\ pc = "done") =>
    /\ Len(pages) = Cardinality(visitedUrls)
    /\ \A url \in visitedUrls : Cardinality(RecordsOf(pages, url)) = 1
    /\ \A i \in 1..Len(pages) : pages[i].status \in {"success", "error"}

\* C4: every page whose capture threw has a record with status error that
\* carries the error's message, and the loop goes on: it ends only with the
\* pending queue empty and dequeues the next URL while there is one.
C4_FailureRecordedAndCrawlContinues ==
  /\ \A i \in 1..Len(thrown) :
       \E j \in 1..Len(pages) : /\ pages[j].url = thrown[i][1]
                                /\ pages[j].status = "error"
                                /\ pages[j].errorMessage = thrown[i][2]
  /\ Len(thrown) = Cardinality({j \in 1..Len(pages) : pages[j].status = "error"})
  /\ pc \in {"loop", "goto", "info", "screenshot", "links", "done"}
  /\ pc = "done" => urlsToVisit = <<>>
  /\ (pc = "loop" /\ urlsToVisit # <<>>) => ENABLED CrawlDequeue

\* The second page failed and a third page was captured after it.
C4_Witness ==
  /\ prog = "crawlAndScreenshot" /\ pc = "done"
  /\ Len(pages) >= 3
  /\ pages[2].status = "error"
  /\ pages[3].status = "success"
  /\ pages[3].url # pages[2].url

C5_AllVisitedOnce ==
  pc = "done" =>
    /\ urlsToVisit = <<>>
    /\ \A i \in 1..Len(enqueued) : /\ enqueued[i] \in visitedUrls
                                   /\ Occurrences(navigated, enqueued[i]) = 1
    /\ Cardinality(visitedUrls) = Len(enqueued)

\* C5: on a finite site crawlAndScreenshot terminates with the pending queue
\* empty, and every URL ever enqueued has been visited exactly once.
C5_TerminatesAllVisitedOnce == <>(pc = "done") /\ [](C5_AllVisitedOnce)

\* A finished crawl in which three URLs were enqueued.
C5_Witness ==
  /\ prog = "crawlAndScreenshot" /\ pc = "done"
  /\ Len(enqueued) >= 3
  /\ duplicates >= 1

\* ------------------------------------------------------------------------
\* normalizeUrl on the links of one page
\* ------------------------------------------------------------------------

\* No crawl runs.
CrawlersIdle ==
  /\ startUrl = Null /\ currentUrl = Null
  /\ visitedUrls = {} /\ urlsToVisit = <<>> /\ pages = <<>>
  /\ pageMeta = NoMeta /\ images = NoFiles /\ pagesJson = NoFile
  /\ visited = {} /\ toVisit = <<>> /\ pageDetails = <<>>
  /\ mainPages = {} /\ subPages = {} /\ errorPages = {}
  /\ takeScreenshots = FALSE
  /\ navigated = <<>> /\ enqueued = <<>> /\ depths = <<>> /\ skips = 0 /\ duplicates = 0 /\ thrown = <<>>

\* The longest link text of the model after its scheme and host, if any.
MaxLinkLen == 3

LinkChars == {"/", "a", "#", "."}

LinkTexts == UNION {[1..n -> LinkChars] : n \in 0..MaxLinkLen}

\* The links given to normalizeUrl: relative ones, absolute ones of the
\* site, a mail address and a data URL.
RawLinks ==
  LinkTexts
    \cup {Origin \o t : t \in {x \in LinkTexts : x = <<>> \/ x[1] \in {"/", "#"}}}
    \cup {<<"mailto:", "a">>, <<"data:", "a">>}

\* The pages the links are found on.
PageUrls == {Origin \o <<"/">>, Origin \o <<"/", "a", "/", "b">>}

\* The link without its fragment, and with another one.
FragmentVariants(url) == {Before(url, "#"), Before(url, "#") \o <<"#", "f">>}

\* The absolute form of a link of the page: what a.href gives for it.
AbsoluteForms(parsed) == IF parsed.ok THEN {Href(parsed)} ELSE {}

\* The links that name the resource of url on the page.
SameResource(url, page) ==
  FragmentVariants(url) \cup AbsoluteForms(URLParse(url, ParseAbs(page)))

\* Before normalizeUrl is called on two links of a page that name the same
\* resource.
InitNormalize ==
  /\ prog = "normalizeUrl"
  /\ pc = "link"
  /\ pageUrl \in PageUrls
  /\ rawLink \in RawLinks
  /\ rawOther \in SameResource(rawLink, pageUrl)
  /\ result = Null /\ otherResult = Null /\ resultAgain = Null
  /\ CrawlersIdle /\ CompareIdle /\ ListIdle
  /\ browser = "none" /\ closes = 0

\* normalizeUrl(link, currentUrl)
NormalizeLink ==
  /\ prog = "normalizeUrl" /\ pc = "link"
  /\ result' = normalizeUrl(rawLink, pageUrl)
  /\ pc' = "other"
  /\ UNCHANGED <<prog, rawLink, rawOther, pageUrl, otherResult, resultAgain>>
  /\ UNCHANGED <<startUrl, currentUrl, crawlVars, reportVars, histVars, compareVars,
                 listVars, runVars>>

\* normalizeUrl on the other link of the page
NormalizeOther ==
  /\ prog = "normalizeUrl" /\ pc = "other"
  /\ otherResult' = normalizeUrl(rawOther, pageUrl)
  /\ pc' = "again"
  /\ UNCHANGED <<prog, rawLink, rawOther, pageUrl, result, resultAgain>>
  /\ UNCHANGED <<startUrl, currentUrl, crawlVars, reportVars, histVars, compareVars,
                 listVars, runVars>>

\* normalizeUrl on what it returned, with the same page
NormalizeAgain ==
  /\ prog = "normalizeUrl" /\ pc = "again"
  /\ resultAgain' = IF result = Null THEN Null ELSE normalizeUrl(result, pageUrl)
  /\ pc' = "done"
  /\ UNCHANGED <<prog, rawLink, rawOther, pageUrl, result, otherResult>>
  /\ UNCHANGED <<startUrl, currentUrl, crawlVars, reportVars, histVars, compareVars,
                 listVars, runVars>>

NextNormalize ==
  \/ NormalizeLink
  \/ NormalizeOther
  \/ NormalizeAgain

SpecNormalize == InitNormalize /\ [][NextNormalize]_vars

\* C6: normalizeUrl is idempotent: a result that is not null, normalized
\* again against the same page, is returned unchanged.
C6_NormalizeIdempotent ==
  (prog = "normalizeUrl" /\ pc = "done" /\ result # Null) => resultAgain = result

HasFragment(url) == \E i \in 1..Len(url) : url[i] = "#"

\* C7: a result of normalizeUrl that is not null has no fragment, and two
\* links of a page that differ only by their fragment, or are the relative
\* and the absolute form of one resource, have the same result.
C7_FragmentFreeAndCanonical ==
  (prog = "normalizeUrl" /\ pc \in {"again", "done"}) =>
    /\ result # Null => ~HasFragment(result)
    /\ otherResult # Null => ~HasFragment(otherResult)
    /\ (result # Null /\ otherResult # Null) => result = otherResult

\* ------------------------------------------------------------------------
\* compareMenu: the comparison pass over a baseline, in both tools
\* ------------------------------------------------------------------------

\* The most pages a pages.json of the model holds.
MaxPages == 3

\* The most pixels pixelmatch finds different in the model.
MaxDiffPixels == 2

\* The URLs of the pages of a baseline, in the order crawled.
ManifestUrls ==
  <<Origin \o <<"/">>, Origin \o <<"/", "a">>, Origin \o <<"/", "a", "/", "b">>, Origin>>

\* The record of the i-th page in pages.json: the one crawlAndScreenshot
\* wrote for a captured or a failed page, or a success record that was
\* edited and has lost its screenshotPath.
ManifestRecord(i, status) ==
  IF status = "success"
  THEN SuccessPageInfo(ManifestUrls[i], ManifestUrls[1], <<"T">>,
                       ScreenshotPath(ManifestUrls[i]), Null)
  ELSE IF status = "edited"
  THEN SuccessPageInfo(ManifestUrls[i], ManifestUrls[1], <<"T">>, Null, Null)
  ELSE ErrorPageInfo(ManifestUrls[i], ManifestUrls[1], <<"navigation failed">>)

\* The pages.json files of the model
Manifests ==
  {[i \in 1..n |-> ManifestRecord(i, statuses[i])] :
     n \in 0..MaxPages, statuses \in [1..MaxPages -> {"success", "edited", "error"}]}

\* A bug to detect: the pass goes over every record of the manifest.
EveryRecord(records) == records

\* baselinePages.filter(p => p.status === 'success')
SuccessOnly(records) == SelectSeq(records, LAMBDA p : p.status = "success")

\* The sizes of the images of the model, <<width, height>>.
ImageSizes == {<<10, 10>>, <<20, 10>>, <<10, 20>>}

\* const { width, height } = imgA: the size of the baseline image of a page
BaselineSizeOf ==
  [url \in {ManifestUrls[i] : i \in 1..Len(ManifestUrls)} |->
     IF url = ManifestUrls[2] THEN <<20, 10>> ELSE <<10, 10>>]

Area(size) == size[1] * size[2]

ComparePrograms == {"compareMenu", "ui-tester.js compareMenu"}

\* A bug to detect: the new screenshots are written into the baseline folder.
BaselineFolder == FolderPath

\* path.join(folderPath, 'compare_' + Date.now())
TempFolder == FolderPath \o <<"compare_N/">>

\* What a screenshot taken by the pass shows: the page as it is rendered now,
\* not as it was when the baseline was captured.
Recaptured(url) == <<"now">> \o url

\* path.join(tempFolder, `${fileName}.png`)
NewScreenshotPath(url) == TempFolder \o SafeFileNameOf[url] \o <<".png">>

\* path.join(RESULT_DIR, `compare_${selected.website}_${selected.date}_${timestamp}.txt`)
ReportFile == <<"result/compare_h_T_N.txt">>

\* The baseline images the records of a manifest refer to.
BaselinePaths(records) ==
  {records[i].screenshotPath : i \in {k \in 1..Len(records) : records[k].status = "success"}}
    \ {Null}

\* What the image at path shows: the page captured last under that name.
DepictedAt(records, path) ==
  records[CHOOSE i \in 1..Len(records) :
            /\ records[i].screenshotPath = path
            /\ \A later \in (i + 1)..Len(records) : records[later].screenshotPath # path].url

\* The disk when the pass starts: the baseline folder with the images that
\* are still present, and the new folder of the pass.
BaselineDisk(records, present) ==
  [path \in present \cup {FolderPath, TempFolder} |->
     IF path \in {FolderPath, TempFolder} THEN Folder ELSE DepictedAt(records, path)]

\* The state when the for loop is first reached: the baseline is chosen,
\* pages.json read and the browser launched.
InitCompare ==
  /\ browser = "open" /\ closes = 0
  /\ prog \in ComparePrograms
  /\ pc = "loop"
  /\ pagesJson \in {FileWith(JsonStringify(manifest)) : manifest \in Manifests}
  /\ baselinePages = JsonParse(ReadFileSync(pagesJson))
  /\ successPages = SuccessOnly(baselinePages)
  /\ images \in {BaselineDisk(baselinePages, present) :
                   present \in SUBSET BaselinePaths(baselinePages)}
  /\ processedCount = 0 /\ newImage = Null
  /\ matchCount = 0 /\ changeCount = 0 /\ errorCount = 0
  /\ changedPages = <<>> /\ unchangedPages = <<>> /\ failedPages = <<>>
  /\ totalPixelsCompared = 0 /\ totalDiffPixels = 0 /\ successfulComparisons = 0
  /\ overallDiffPercentage = Null
  /\ compared = <<>>
  /\ startUrl = Null /\ currentUrl = Null
  /\ visitedUrls = {} /\ urlsToVisit = <<>> /\ pages = <<>> /\ pageMeta = NoMeta
  /\ visited = {} /\ toVisit = <<>> /\ pageDetails = <<>>
  /\ mainPages = {} /\ subPages = {} /\ errorPages = {}
  /\ takeScreenshots = FALSE
  /\ navigated = <<>> /\ enqueued = <<>> /\ depths = <<>> /\ skips = 0 /\ duplicates = 0 /\ thrown = <<>>
  /\ NormIdle /\ ListIdle

\* What no step of the pass touches
compareFrame ==
  <<startUrl, currentUrl, visitedUrls, urlsToVisit, pages, pageMeta, reportVars, normVars, listVars,
    enqueued, depths, skips, duplicates, thrown>>

\* The page p of the running iteration
CurrentPage == successPages[processedCount + 1]

\* The iteration ends and for...of takes the next page (processedCount++ in
\* src/unnamed/part_000; the position of the iterator in src/ui-tester.js).
NextPage ==
  /\ pc' = "loop"
  /\ processedCount' = processedCount + 1
  /\ newImage' = Null

\* A bug to detect: the catch block of the pass counts nothing.
CompareCatchLogOnly(message) ==
  /\ NextPage
  /\ UNCHANGED <<matchCount, changeCount, errorCount, changedPages, unchangedPages,
                 failedPages, totalPixelsCompared, totalDiffPixels, successfulComparisons>>

\* catch (err) of src/unnamed/part_000: errorCount++; errorPages.push
CompareCatch(message) ==
  /\ errorCount' = errorCount + 1
  /\ failedPages' = Append(failedPages, [url |-> CurrentPage.url, error |-> message])
  /\ NextPage
  /\ UNCHANGED <<matchCount, changeCount, changedPages, unchangedPages,
                 totalPixelsCompared, totalDiffPixels, successfulComparisons>>

\* catch (err) of src/ui-tester.js: the error is logged
TesterCatch(message) ==
  /\ NextPage
  /\ UNCHANGED <<matchCount, changeCount, errorCount, changedPages, unchangedPages,
                 failedPages, totalPixelsCompared, totalDiffPixels, successfulComparisons>>

\* The catch block of the tool that runs
Caught(message) ==
  IF prog = "compareMenu" THEN CompareCatch(message) ELSE TesterCatch(message)

\* await page.goto(p.url, ...)
CompareGoto ==
  /\ prog \in ComparePrograms /\ pc = "loop"
  /\ processedCount < Len(successPages)
  /\ navigated' = Append(navigated, CurrentPage.url)
  /\ \E ok \in BOOLEAN :
       IF ok
       THEN /\ pc' = "screenshot"
            /\ UNCHANGED <<processedCount, newImage, matchCount, changeCount, errorCount,
                           changedPages, unchangedPages, failedPages,
                           totalPixelsCompared, totalDiffPixels, successfulComparisons>>
       ELSE Caught(<<"navigation failed">>)
  /\ UNCHANGED <<prog, baselinePages, successPages, overallDiffPercentage, compared>>
  /\ UNCHANGED <<images, pagesJson, compareFrame>>
  /\ UNCHANGED runVars

\* await page.screenshot({ path: newScreenshot, fullPage: true })
CompareScreenshot ==
  /\ prog \in ComparePrograms /\ pc = "screenshot"
  /\ \E ok \in BOOLEAN, size \in ImageSizes :
       IF ok
       THEN /\ pc' = "diff"
            /\ newImage' = size
            /\ images' = WriteFile(images, NewScreenshotPath(CurrentPage.url),
                                 Recaptured(CurrentPage.url))
            /\ UNCHANGED <<processedCount, matchCount, changeCount, errorCount,
                           changedPages, unchangedPages, failedPages,
                           totalPixelsCompared, totalDiffPixels, successfulComparisons>>
       ELSE Caught(<<"screenshot failed">>) /\ UNCHANGED images
  /\ UNCHANGED <<prog, baselinePages, successPages, overallDiffPercentage, compared>>
  /\ UNCHANGED <<pagesJson, navigated, compareFrame>>
  /\ UNCHANGED runVars

\* The number num / den written with two decimals, (x).toFixed(2), as a
\* count of hundredths: the nearest one, either neighbour when x is written
\* halfway between two, where the rounding of the division decides.
ToFixed2(num, den) ==
  IF 2 * ((num * 100) % den) < den THEN {(num * 100) \div den}
  ELSE IF 2 * ((num * 100) % den) > den THEN {(num * 100) \div den + 1}
  ELSE {(num * 100) \div den, (num * 100) \div den + 1}

\* A bug to detect: the boundary ratio is taken for a match.
IsMatchInclusive(diffPixels, width, height) == diffPixels * 100 <= width * height

\* percentDiff < 0.01, with percentDiff = diffPixels / (width * height): the
\* quotient of two integers below 2^53 is the double nearest to it, which is
\* below the double 0.01 exactly when diffPixels * 100 < width * height.
IsMatch(diffPixels, width, height) == diffPixels * 100 < width * height

\* A bug to detect: = written for +=.
Overwritten(total, amount) == amount

\* total += amount
Added(total, amount) == total + amount

\* path.join(tempFolder, `${fileName}_diff.png`)
DiffPath(url) == TempFolder \o SafeFileNameOf[url] \o <<"_diff.png">>

\* The statistics and the classification of src/unnamed/part_000, from
\* percentDiff on
CompareClassify(p, size, diffPixels, percentDiff) ==
  /\ totalPixelsCompared' = Added(totalPixelsCompared, Area(size))
  /\ totalDiffPixels' = Added(totalDiffPixels, diffPixels)
  /\ successfulComparisons' = successfulComparisons + 1
  /\ IF IsMatch(diffPixels, size[1], size[2])
     THEN /\ matchCount' = matchCount + 1
          /\ unchangedPages' = Append(unchangedPages,
               [url |-> p.url, title |-> p.title, percentDiff |-> percentDiff])
          /\ UNCHANGED <<changeCount, changedPages>>
     ELSE /\ changeCount' = changeCount + 1
          /\ changedPages' = Append(changedPages,
               [url |-> p.url, diff |-> DiffPath(p.url), percentDiff |-> percentDiff])
          /\ UNCHANGED <<matchCount, unchangedPages>>
  /\ UNCHANGED <<errorCount, failedPages>>
  /\ NextPage

\* The classification of src/ui-tester.js
TesterClassify(p, size, diffPixels, percentDiff) ==
  /\ IF IsMatch(diffPixels, size[1], size[2])
     THEN /\ matchCount' = matchCount + 1
          /\ UNCHANGED <<changeCount, changedPages>>
     ELSE /\ changeCount' = changeCount + 1
          /\ changedPages' = Append(changedPages,
               [url |-> p.url, diff |-> DiffPath(p.url), percentDiff |-> percentDiff])
          /\ UNCHANGED matchCount
  /\ UNCHANGED <<errorCount, unchangedPages, failedPages, totalPixelsCompared,
                 totalDiffPixels, successfulComparisons>>
  /\ NextPage

\* A bug to detect: a missing baseline image is only logged.
BaselineMissingLogged == TesterCatch(<<"Baseline screenshot not found">>)

\* else of if (fs.existsSync(baselineScreenshot)): an error of the page in
\* src/unnamed/part_000, a line of the log in src/ui-tester.js
BaselineMissing ==
  IF prog = "compareMenu"
  THEN CompareCatch(<<"Baseline screenshot not found">>)
  ELSE TesterCatch(<<"Baseline screenshot not found">>)

\* fs.existsSync(path): false for a path that is null
ExistsSync(disk, path) == path \in DOMAIN disk

\* What pixelmatch returned for the page p, whose new screenshot has the
\* size captured
Comparison(p, size, captured, diffPixels, written) ==
  [url |-> p.url, diffPixels |-> diffPixels, width |-> size[1], height |-> size[2],
   captured |-> captured, written |-> written]

\* The images were read and have data of the same length: pixelmatch returns
\* diffPixels, the diff image is written and the page classified.
CompareImages(p, size, diffPixels, writable) ==
  IF ~writable
  THEN /\ Caught(<<"write failed">>)
       /\ compared' = Append(compared, Comparison(p, size, newImage, diffPixels, FALSE))
       /\ UNCHANGED images
  ELSE /\ compared' = Append(compared, Comparison(p, size, newImage, diffPixels, TRUE))
       /\ images' = WriteFile(images, DiffPath(p.url), <<"diff">>)
       /\ \E percentDiff \in ToFixed2(diffPixels * 100, Area(size)) :
            IF prog = "compareMenu"
            THEN CompareClassify(p, size, diffPixels, percentDiff)
            ELSE TesterClassify(p, size, diffPixels, percentDiff)

\* From fs.existsSync(baselineScreenshot) to the end of the iteration: the
\* images are read, pixelmatch throws when their data differ in length, the
\* diff image is written and the page classified.
CompareDiff ==
  /\ prog \in ComparePrograms /\ pc = "diff"
  /\ \E outcome \in {"unreadable", "unwritable", "written"}, diffPixels \in 0..MaxDiffPixels :
       IF ~ExistsSync(images, CurrentPage.screenshotPath)
       THEN BaselineMissing /\ UNCHANGED <<compared, images>>
       ELSE IF outcome = "unreadable"
       THEN Caught(<<"read failed">>) /\ UNCHANGED <<compared, images>>
       ELSE IF Area(BaselineSizeOf[CurrentPage.url]) # Area(newImage)
       THEN Caught(<<"Image sizes do not match">>) /\ UNCHANGED <<compared, images>>
       ELSE CompareImages(CurrentPage, BaselineSizeOf[CurrentPage.url], diffPixels,
                          outcome = "written")
  /\ UNCHANGED <<prog, baselinePages, successPages, overallDiffPercentage>>
  /\ UNCHANGED <<pagesJson, navigated, compareFrame>>
  /\ UNCHANGED runVars

\* successfulComparisons > 0 ? ((totalDiffPixels / totalPixelsCompared) * 100).toFixed(2) : '0.00'
OverallDiffPercentages(diff, pixels, comparisons) ==
  IF comparisons > 0 THEN ToFixed2(diff * 100, pixels) ELSE {0}

\* The report of src/unnamed/part_000
CompareReport(overall) ==
  [total |-> Len(successPages), matched |-> matchCount, changed |-> changeCount,
   errors |-> errorCount, overall |-> overall, changedPages |-> changedPages,
   unchangedPages |-> unchangedPages, errorPages |-> failedPages]

\* The report of src/ui-tester.js
TesterReport ==
  [total |-> Len(successPages), matched |-> matchCount, changed |-> changeCount,
   changedPages |-> changedPages]

\* After the loop: the browser is closed, the overall difference computed in
\* src/unnamed/part_000 and the report written.
CompareFinish ==
  /\ prog \in ComparePrograms /\ pc = "loop"
  /\ processedCount = Len(successPages)
  /\ pc' = "done"
  /\ IF prog = "compareMenu"
     THEN \E overall \in OverallDiffPercentages(totalDiffPixels, totalPixelsCompared,
                                                successfulComparisons) :
            /\ overallDiffPercentage' = overall
            /\ images' = WriteFile(images, ReportFile, CompareReport(overall))
     ELSE /\ images' = WriteFile(images, ReportFile, TesterReport)
          /\ UNCHANGED overallDiffPercentage
  /\ UNCHANGED <<prog, baselinePages, successPages, processedCount, newImage, matchCount,
                 changeCount, errorCount, changedPages, unchangedPages, failedPages,
                 totalPixelsCompared, totalDiffPixels, successfulComparisons, compared>>
  /\ UNCHANGED <<pagesJson, navigated, compareFrame>>
  /\ browser' = "closed" /\ closes' = closes + 1

NextCompare ==
  \/ CompareGoto
  \/ CompareScreenshot
  \/ CompareDiff
  \/ CompareFinish

SpecCompare == InitCompare /\ [][NextCompare]_vars

\* The comparisons after which the page was classified, and those of them
\* with diffPixels / (width * height) below 0.01.
Classified == {i \in 1..Len(compared) : compared[i].written}

BelowOnePercent ==
  {i \in Classified : compared[i].diffPixels * 100 < compared[i].width * compared[i].height}

UrlsOf(records) == {records[i].url : i \in 1..Len(records)}

\* C8: in both tools a compared page is matched exactly when diffPixels /
\* (width * height) < 0.01 and changed exactly when the ratio is >= 0.01.
C8_MatchedBelowOnePercent ==
  prog \in ComparePrograms =>
    /\ matchCount = Cardinality(BelowOnePercent)
    /\ changeCount = Cardinality(Classified \ BelowOnePercent)
    /\ UrlsOf(changedPages) = {compared[i].url : i \in Classified \ BelowOnePercent}
    /\ prog = "compareMenu" =>
         UrlsOf(unchangedPages) = {compared[i].url : i \in BelowOnePercent}

\* A pass that classified a page at the boundary ratio, one with identical
\* images and one below the boundary with differing pixels.
C8_Witness ==
  /\ prog \in ComparePrograms /\ pc = "done"
  /\ \E i \in Classified : compared[i].diffPixels * 100 = compared[i].width * compared[i].height
  /\ \E i \in Classified : compared[i].diffPixels = 0
  /\ \E i \in BelowOnePercent : compared[i].diffPixels > 0

\* How many of the three lists of the pass hold the page url.
ClassesOf(url) ==
  Occurrences([i \in 1..Len(unchangedPages) |-> unchangedPages[i].url], url)
    + Occurrences([i \in 1..Len(changedPages) |-> changedPages[i].url], url)
    + Occurrences([i \in 1..Len(failedPages) |-> failedPages[i].url], url)

\* C9: in compareMenu of src/unnamed/part_000 every processed page is in
\* exactly one of matched, changed and errored, and the pass ends only when
\* every success-status page of the manifest is processed.
C9_EveryPageInOneClass ==
  prog = "compareMenu" =>
    /\ matchCount + changeCount + errorCount = processedCount
    /\ matchCount = Len(unchangedPages)
    /\ changeCount = Len(changedPages)
    /\ errorCount = Len(failedPages)
    /\ \A i \in 1..processedCount : ClassesOf(successPages[i].url) = 1
    /\ pc = "done" =>
         processedCount =
           Cardinality({i \in 1..Len(baselinePages) : baselinePages[i].status = "success"})

\* A finished pass over three success-status pages, with a page of each
\* class.
C9_Witness ==
  /\ prog = "compareMenu" /\ pc = "done"
  /\ matchCount >= 1 /\ changeCount >= 1 /\ errorCount >= 1
  /\ processedCount = Len(successPages)

\* The sum of f over the indices in S.
RECURSIVE SumOver(_, _)
SumOver(f, S) ==
  IF S = {} THEN 0
  ELSE f[CHOOSE i \in S : TRUE] + SumOver(f, S \ {CHOOSE i \in S : TRUE})

\* The comparisons of the pages classified matched or changed.
Counted ==
  {i \in 1..Len(compared) :
     compared[i].url \in UrlsOf(unchangedPages) \cup UrlsOf(changedPages)}

\* C10: at the end of compareMenu of src/unnamed/part_000 the totals sum
\* diffPixels and width * height over exactly the pages classified matched
\* or changed, and the overall difference is the ratio of the totals as a
\* percentage with two decimals, 0.00 when no page was compared.
C10_OverallIsRatioOfTotals ==
  (prog = "compareMenu" /\ pc = "done") =>
    /\ totalDiffPixels =
         SumOver([i \in 1..Len(compared) |-> compared[i].diffPixels], Counted)
    /\ totalPixelsCompared =
         SumOver([i \in 1..Len(compared) |-> compared[i].width * compared[i].height], Counted)
    /\ successfulComparisons = Cardinality(Counted)
    /\ IF Counted = {} THEN overallDiffPercentage = 0
       ELSE /\ 2 * (overallDiffPercentage * totalPixelsCompared - totalDiffPixels * 10000)
                 <= totalPixelsCompared
            /\ 2 * (totalDiffPixels * 10000 - overallDiffPercentage * totalPixelsCompared)
                 <= totalPixelsCompared

\* A pass with a matched page, a changed page of another size and a page
\* that failed after pixelmatch, where the mean of the two page ratios is
\* not the ratio of the totals.
C10_Witness ==
  /\ prog = "compareMenu" /\ pc = "done"
  /\ matchCount = 1 /\ changeCount = 1 /\ errorCount = 1
  /\ \E i \in 1..Len(compared) : ~compared[i].written
  /\ unchangedPages[1].percentDiff + changedPages[1].percentDiff # 2 * overallDiffPercentage

\* C11: a page whose baseline image and new image differ in width or in
\* height is errored: no diff is computed from such a pair, and the page is
\* never matched or changed.
C11_MismatchedSizesErrored ==
  prog = "compareMenu" =>
    \A i \in 1..Len(compared) :
      <<compared[i].width, compared[i].height>> = compared[i].captured

\* The pages the pass has dealt with whose baseline image is not on the
\* disk, or whose record names none.
WithoutBaseline ==
  {i \in 1..processedCount : successPages[i].screenshotPath \notin DOMAIN images}

\* C12: in compareMenu of src/unnamed/part_000 a success-status page whose
\* baseline image does not exist, or whose screenshotPath is null, is
\* errored once, as "Baseline screenshot not found", is neither matched nor
\* changed and adds nothing to the pixel totals.
C12_MissingBaselineErrored ==
  prog = "compareMenu" =>
    /\ \A i \in WithoutBaseline :
         /\ \E k \in 1..Len(failedPages) : failedPages[k].url = successPages[i].url
         /\ \A k \in 1..Len(failedPages) :
              failedPages[k].url = successPages[i].url =>
                /\ failedPages[k].error \in {<<"Baseline screenshot not found">>,
                                             <<"navigation failed">>, <<"screenshot failed">>}
                /\ \A other \in 1..Len(failedPages) :
                     failedPages[other].url = successPages[i].url => other = k
         /\ successPages[i].url \notin UrlsOf(unchangedPages) \cup UrlsOf(changedPages)
         /\ \A k \in 1..Len(compared) : compared[k].url # successPages[i].url
    /\ errorCount = Len(failedPages)
    /\ totalPixelsCompared =
         SumOver([k \in 1..Len(compared) |->
                    IF compared[k].written THEN compared[k].width * compared[k].height ELSE 0],
                 1..Len(compared))
    /\ totalDiffPixels =
         SumOver([k \in 1..Len(compared) |->
                    IF compared[k].written THEN compared[k].diffPixels ELSE 0],
                 1..Len(compared))

\* A finished pass with a page whose record names no image and a page whose
\* image is gone, both listed as "Baseline screenshot not found", and a
\* matched page.
C12_Witness ==
  /\ prog = "compareMenu" /\ pc = "done"
  /\ matchCount >= 1
  /\ \E i, j \in WithoutBaseline :
       /\ successPages[i].screenshotPath = Null
       /\ successPages[j].screenshotPath # Null
       /\ \E k, l \in 1..Len(failedPages) :
            /\ failedPages[k] = [url |-> successPages[i].url,
                                 error |-> <<"Baseline screenshot not found">>]
            /\ failedPages[l] = [url |-> successPages[j].url,
                                 error |-> <<"Baseline screenshot not found">>]

\* C13: in compareMenu of src/ui-tester.js every page that failed or has no
\* baseline image is counted as an error in the report, so that matched,
\* changed and errors add up to the pages compared.
C13_TesterCountsEveryFailure ==
  (prog = "ui-tester.js compareMenu" /\ pc = "done") =>
    images[ReportFile].matched + images[ReportFile].changed
      + (IF "errors" \in DOMAIN images[ReportFile] THEN images[ReportFile].errors ELSE 0)
      = images[ReportFile].total

\* The success-status records of the loaded manifest, and their URLs.
ManifestSuccesses == SelectSeq(baselinePages, LAMBDA r : r.status = "success")

ManifestSuccessUrls == [i \in 1..Len(ManifestSuccesses) |-> ManifestSuccesses[i].url]

\* C14: a comparison pass navigates exactly the URLs of the success-status
\* records of the manifest, once per record and in manifest order.
C14_NavigatesManifestOnly ==
  prog \in ComparePrograms =>
    /\ Len(navigated) <= Len(ManifestSuccessUrls)
    /\ \A i \in 1..Len(navigated) : navigated[i] = ManifestSuccessUrls[i]
    /\ pc = "done" => navigated = ManifestSuccessUrls

\* A finished pass over a manifest whose first record has status error and
\* which has two success records.
C14_Witness ==
  /\ prog \in ComparePrograms /\ pc = "done"
  /\ Len(navigated) >= 2
  /\ baselinePages[1].status = "error"
  /\ navigated[1] # baselinePages[1].url

\* C15: no step of a comparison pass changes pages.json, and none creates,
\* removes or rewrites the image a record's screenshotPath names: whatever
\* the pass writes (new screenshots, diff images, the report) is written at
\* another path, whether its captures succeed or fail.
C15_BaselineUnchanged ==
  [][/\ pagesJson' = pagesJson
     /\ baselinePages' = baselinePages
     /\ \A path \in BaselinePaths(baselinePages) :
          /\ ExistsSync(images', path) <=> ExistsSync(images, path)
          /\ ExistsSync(images, path) => images'[path] = images[path]]_vars

\* A pass over two pages has ended with a failed capture, a new screenshot
\* and a diff image in the folder of the pass, and the report written.
C15_Witness ==
  /\ pc = "done" /\ prog = "compareMenu"
  /\ errorCount >= 1
  /\ ExistsSync(images, ReportFile)
  /\ \E i \in 1..Len(successPages) :
       /\ ExistsSync(images, successPages[i].screenshotPath)
       /\ ExistsSync(images, NewScreenshotPath(successPages[i].url))
       /\ ExistsSync(images, DiffPath(successPages[i].url))
       /\ images[NewScreenshotPath(successPages[i].url)] # images[successPages[i].screenshotPath]

\* C16: when crawlAndScreenshot has finished, two success records with
\* different URLs have different screenshotPath values, and the image at the
\* screenshotPath of a success record is the one captured for its URL.
C16_OneImagePerUrl ==
  (prog = "crawlAndScreenshot" /\ pc = "done") =>
    \A i \in 1..Len(pages) :
      pages[i].status = "success" =>
        /\ images[pages[i].screenshotPath] = pages[i].url
        /\ \A j \in 1..Len(pages) :
             (pages[j].status = "success" /\ pages[j].url # pages[i].url)
               => pages[j].screenshotPath # pages[i].screenshotPath

\* ------------------------------------------------------------------------
\* From the crawl to the comparison pass
\* ------------------------------------------------------------------------

\* compareMenu up to its for loop, on the baseline a finished crawl has left:
\* pages.json exists and is parsed, the success records are filtered and the
\* folder of the pass is made.
CompareLoad ==
  /\ prog = "crawlAndScreenshot" /\ pc = "done"
  /\ pagesJson # NoFile
  /\ prog' = "compareMenu" /\ pc' = "loop"
  /\ baselinePages' = JsonParse(ReadFileSync(pagesJson))
  /\ successPages' = SuccessOnly(JsonParse(ReadFileSync(pagesJson)))
  /\ images' = WriteFile(images, TempFolder, Folder)
  /\ UNCHANGED <<processedCount, newImage, matchCount, changeCount, errorCount,
                 changedPages, unchangedPages, failedPages, totalPixelsCompared,
                 totalDiffPixels, successfulComparisons, overallDiffPercentage, compared>>
  /\ UNCHANGED <<startUrl, currentUrl, visitedUrls, urlsToVisit, pages, pageMeta, pagesJson>>
  /\ UNCHANGED <<reportVars, normVars, listVars, histVars>>
  /\ browser' = "open" /\ closes' = 0

\* A crawl, and the load of what it saved
SpecSaveLoad == InitCrawl /\ [][NextCrawl \/ CompareLoad]_vars

\* C17: the manifest compareMenu has parsed from pages.json is the sequence
\* pages the crawl saved: as many records, in the same order, each with the
\* same keys and the same value of every key, null where it was null.
C17_LoadedManifestEqualsSaved ==
  prog = "compareMenu" =>
    /\ Len(baselinePages) = Len(pages)
    /\ \A i \in 1..Len(pages) :
         /\ DOMAIN baselinePages[i] = DOMAIN pages[i]
         /\ \A k \in 1..Len(PageKeys) :
              baselinePages[i][PageKeys[k]] = pages[i][PageKeys[k]]

\* The manifest of a crawl with a captured and a failed page has been loaded.
C17_Witness ==
  /\ prog = "compareMenu"
  /\ \E i, j \in 1..Len(baselinePages) :
       /\ i < j
       /\ baselinePages[i].status = "success" /\ baselinePages[i].errorMessage = Null
       /\ baselinePages[j].status = "error" /\ baselinePages[j].screenshotPath = Null
       /\ baselinePages[j].title = Null

\* ------------------------------------------------------------------------
\* Cancellation of a crawl
\* ------------------------------------------------------------------------

\* process.on('SIGINT'): the handler logs, closes readline and exits the
\* process, wherever the crawl is; nothing on disk is touched.
Sigint ==
  /\ prog = "crawlAndScreenshot"
  /\ pc \notin {"done", "cancelled", "failed"}
  /\ pc' = "cancelled"
  /\ UNCHANGED <<prog, startUrl, currentUrl, crawlVars, reportVars, histVars, normVars, listVars,
                 compareVars>>
  /\ UNCHANGED runVars

\* A crawl the user may interrupt
SpecCrawlSigint == InitCrawl /\ [][NextCrawl \/ Sigint]_vars

\* C18: pages.json exists exactly when crawlAndScreenshot has run to its
\* end; the only step that writes it finds no file, an empty queue and no
\* page in work, writes the whole of pages, and is never taken twice. Until
\* then, and after a SIGINT at any point of the crawl, there is no pages.json.
C18_ManifestWrittenOnceAtEnd ==
  /\ [](pagesJson # NoFile <=> pc = "done")
  /\ [][pagesJson' # pagesJson =>
         /\ pagesJson = NoFile
         /\ pc = "loop" /\ urlsToVisit = <<>>
         /\ \A i \in 1..Len(enqueued) : enqueued[i] \in visitedUrls
         /\ pagesJson' = FileWith(JsonStringify(pages))]_vars

\* SIGINT has arrived with a page captured and URLs still pending.
C18_Witness ==
  /\ pc = "cancelled"
  /\ Len(pages) >= 1 /\ urlsToVisit # <<>>
  /\ pagesJson = NoFile

\* The entries of BASELINE_DIR
BaselineDirEntries == {FolderPath}

\* getBaselineFolders: the entries of BASELINE_DIR that are directories
getBaselineFolders(disk) ==
  {item \in BaselineDirEntries \cap DOMAIN disk : disk[item] = Folder}

\* C19: after a SIGINT during crawlAndScreenshot the baseline directory
\* holds no folder and no image of the interrupted run, and
\* getBaselineFolders lists nothing of it.
C19_CancelLeavesNoBaseline ==
  pc = "cancelled" => (DOMAIN images = {} /\ getBaselineFolders(images) = {})

\* ------------------------------------------------------------------------
\* The order of a crawl
\* ------------------------------------------------------------------------

\* Where url stands in a sequence that holds it.
Position(seq, url) == CHOOSE i \in 1..Len(seq) : seq[i] = url

\* C20: crawlAndScreenshot goes breadth first. The URLs are loaded in the
\* order they were first enqueued, and the pending queue is what is left of
\* that order; the distance from the start URL never falls along it, and a
\* URL is enqueued only while every page loaded so far is nearer to the start
\* URL than it is, so a level is enqueued whole before the next is visited;
\* the records of the manifest follow the order of the dequeues.
C20_BreadthFirst ==
  /\ [](prog = "crawlAndScreenshot" =>
          /\ Len(navigated) <= Len(enqueued)
          /\ navigated = SubSeq(enqueued, 1, Len(navigated))
          /\ urlsToVisit = SubSeq(enqueued, Len(enqueued) - Len(urlsToVisit) + 1,
                                  Len(enqueued))
          /\ Len(depths) = Len(enqueued)
          /\ \A i, j \in 1..Len(depths) : i < j => depths[i] <= depths[j]
          /\ \A i \in 1..Len(pages) : Includes(navigated, pages[i].url)
          /\ \A i, j \in 1..Len(pages) :
               i < j => Position(navigated, pages[i].url) <= Position(navigated, pages[j].url)
          /\ pc \in {"loop", "done"} =>
               \A i \in 1..Len(navigated) :
                 \E r \in 1..Len(pages) : pages[r].url = navigated[i])
  /\ [][prog = "crawlAndScreenshot" =>
          \A k \in (Len(enqueued) + 1)..Len(enqueued') :
            \A i \in 1..Len(navigated) : depths[i] < depths'[k]]_vars

\* A finished crawl of three levels: the start URL, two pages it links to,
\* found in that order and loaded in that order, and a page found on one of
\* them, loaded last.
C20_Witness ==
  /\ prog = "crawlAndScreenshot" /\ pc = "done"
  /\ Len(navigated) = 4
  /\ depths = <<0, 1, 1, 2>>
  /\ Len(pages) >= 4

\* ------------------------------------------------------------------------
\* The links a crawl follows
\* ------------------------------------------------------------------------

\* The URLs a crawl has had pending, has marked visited or has loaded.
FrontierUrls ==
  visitedUrls \cup visited
    \cup {urlsToVisit[i] : i \in 1..Len(urlsToVisit)} \cup {toVisit[i] : i \in 1..Len(toVisit)}
    \cup {enqueued[i] : i \in 1..Len(enqueued)} \cup {navigated[i] : i \in 1..Len(navigated)}

\* C21: every URL that is pending, visited, loaded or was ever enqueued has
\* the hostname of the start URL; and when the links of the seed page are
\* processed, a document with two links to different pages of the site,
\* neither the seed, and one link to another site leaves exactly those two
\* URLs pending, in document order.
C21_OnlyInDomainLinksPending ==
  /\ \A url \in FrontierUrls : DomainOf[url] = DomainOf[startUrl]
  /\ (prog = "crawlAndScreenshot" /\ pc = "links" /\ currentUrl = startUrl) =>
       \A links \in SeedDocuments(Hrefs) :
         (\A i \in 1..3 : NormalizedLink[links[i], currentUrl] # startUrl) =>
           ProcessLinks(links, urlsToVisit, visitedUrls, currentUrl, DomainOf[startUrl])
             = SelectSeq([i \in 1..3 |-> NormalizedLink[links[i], currentUrl]], SameSite)
  /\ (prog = "generatePageReport" /\ pc = "evaluate" /\ currentUrl = startUrl) =>
       \A links \in SeedDocuments(ReportHrefs) :
         (\A i \in 1..3 : links[i] # startUrl) =>
           toVisit \o NewLinks(links, DomainOf[startUrl], visited) = SelectSeq(links, SameSite)

\* The seed page of crawlAndScreenshot has been processed and two URLs of the
\* site are pending.
C21_Witness ==
  /\ prog = "crawlAndScreenshot" /\ pc = "loop"
  /\ navigated = <<startUrl>>
  /\ Len(urlsToVisit) = 2
  /\ enqueued = <<startUrl>> \o urlsToVisit

\* ------------------------------------------------------------------------
\* What normalizeUrl returns
\* ------------------------------------------------------------------------

\* C22: a result of normalizeUrl that is not null has the scheme http or
\* https: a link of any other scheme is rejected.
C22_OnlyNavigableSchemes ==
  (prog = "normalizeUrl" /\ pc # "link" /\ result # Null) => result[1] \in SpecialSchemes

\* C23: for a link without a scheme that is more than a fragment, a
\* scheme-relative one (//host2/path) or one relative to the page,
\* normalizeUrl returns what standard URL resolution of the link against the
\* page gives, with the fragment removed.
C23_RelativeLinksResolved ==
  (/\ prog = "normalizeUrl" /\ pc # "link"
   /\ rawLink # <<>> /\ ~IsScheme(rawLink[1]) /\ ~StartsWith(rawLink, "#")) =>
    result = HrefWithoutHash(ParseOnto(rawLink, ParseAbs(pageUrl)))

\* ------------------------------------------------------------------------
\* The list of the baselines
\* ------------------------------------------------------------------------

\* The most baselines BASELINE_DIR holds in the model.
MaxBaselines == 2

\* The hostnames of the sites crawled, and the local times of the crawls.
Hostnames == {<<"h">>, <<"x">>, <<"a", "-", "b">>}

Clocks ==
  {[year |-> "2026", month |-> "11", day |-> day, hours |-> "10", minutes |-> "20",
    seconds |-> seconds] : day \in {"01", "02"}, seconds \in {"30", "31"}}

\* `${year}-${month}-${day}T${hours}-${minutes}-${seconds}`, each padded
\* number one character of the model
getLocalTimestamp(now) ==
  <<now.year, "-", now.month, "-", now.day, "T", now.hours, "-", now.minutes, "-",
    now.seconds>>

\* `${safeDomain}-${timestamp}` with safeDomain = domain.replace(/[^a-zA-Z0-9.-]/g, '_')
FolderName(domain, now) == ReplaceUnsafe(domain) \o <<"-">> \o getLocalTimestamp(now)

\* folder.split('-')
RECURSIVE SplitOn(_, _)
SplitOn(s, c) ==
  IF IndexOf(s, c) = 0 THEN <<s>>
  ELSE <<SubSeq(s, 1, IndexOf(s, c) - 1)>> \o SplitOn(From(s, IndexOf(s, c) + 1), c)

\* parts.join('-')
RECURSIVE Join(_, _)
Join(parts, c) ==
  IF parts = <<>> THEN <<>>
  ELSE IF Len(parts) = 1 THEN parts[1]
  ELSE parts[1] \o <<c>> \o Join(Tail(parts), c)

\* const date = parts[parts.length - 1]
FolderDate(folder) == SplitOn(folder, "-")[Len(SplitOn(folder, "-"))]

\* const website = parts.slice(0, -1).join('-')
FolderWebsite(folder) ==
  Join(SubSeq(SplitOn(folder, "-"), 1, Len(SplitOn(folder, "-")) - 1), "-")

\* The folders with parts.length >= 2
Categorizable(list) == SelectSeq(list, LAMBDA folder : Len(SplitOn(folder, "-")) >= 2)

\* The dates pushed under one key, in the order of the folders
RECURSIVE DatesOf(_, _)
DatesOf(list, website) ==
  IF list = <<>> THEN <<>>
  ELSE (IF FolderWebsite(Head(list)) = website THEN <<FolderDate(Head(list))>> ELSE <<>>)
         \o DatesOf(Tail(list), website)

\* categorizeFolders: an object with a key for each website and the array of
\* its dates
categorizeFolders(list) ==
  [website \in {FolderWebsite(Categorizable(list)[i]) : i \in 1..Len(Categorizable(list))} |->
     DatesOf(Categorizable(list), website)]

\* fs.readdirSync(BASELINE_DIR): the directories in some order
Readdir(dirs) ==
  {list \in [1..Cardinality(dirs) -> dirs] :
     \A i, j \in 1..Cardinality(dirs) : list[i] = list[j] => i = j}

\* The main menu is shown and BASELINE_DIR is empty.
InitList ==
  /\ prog = "mainMenu" /\ pc = "menu"
  /\ folders = {} /\ created = {} /\ categorized = <<>>
  /\ browser = "none" /\ closes = 0
  /\ CrawlersIdle /\ NormIdle /\ CompareIdle

\* What crawlAndScreenshot of a site leaves in BASELINE_DIR: the folder of
\* the run, made unless it exists.
CreateBaseline ==
  /\ prog = "mainMenu" /\ pc # "crashed"
  /\ Cardinality(created) < MaxBaselines
  /\ \E domain \in Hostnames, now \in Clocks :
       /\ created' = created \cup {[domain |-> domain, now |-> now]}
       /\ folders' = folders \cup {FolderName(domain, now)}
  /\ pc' = "menu"
  /\ UNCHANGED <<prog, categorized, startUrl, currentUrl, crawlVars, reportVars, histVars,
                 normVars, compareVars, runVars>>

\* The directories in BASELINE_DIR that no crawl has made.
ForeignFolders == {<<"t">>, <<"t", "-", "1">>, <<"constructor", "-", "1">>}

\* A directory is put into BASELINE_DIR from outside the program.
MakeDirectory ==
  /\ prog = "mainMenu" /\ pc # "crashed"
  /\ Cardinality(folders) <= MaxBaselines
  /\ \E folder \in ForeignFolders \ folders : folders' = folders \cup {folder}
  /\ pc' = "menu"
  /\ UNCHANGED <<prog, created, categorized, startUrl, currentUrl, crawlVars, reportVars,
                 histVars, normVars, compareVars, runVars>>

\* The names categorized = {} has before any key is set: what it inherits
\* from Object.prototype, each a value that is truthy and has no push.
ObjectPrototypeKeys == {<<"constructor">>, <<"__proto__">>}

\* if (!categorized[website]) finds an inherited value, so no array is made
\* and categorized[website].push(date) throws a TypeError.
CategorizeThrows(list) ==
  \E i \in 1..Len(Categorizable(list)) :
    FolderWebsite(Categorizable(list)[i]) \in ObjectPrototypeKeys

\* compareMenu: getBaselineFolders and categorizeFolders; an error thrown
\* reaches the catch of main, which logs it and exits the process.
ListBaselines ==
  /\ prog = "mainMenu" /\ pc # "crashed"
  /\ \E list \in Readdir(folders) :
       IF CategorizeThrows(list)
       THEN pc' = "crashed" /\ UNCHANGED categorized
       ELSE pc' = "listed" /\ categorized' = categorizeFolders(list)
  /\ UNCHANGED <<prog, folders, created, startUrl, currentUrl, crawlVars, reportVars,
                 histVars, normVars, compareVars, runVars>>

NextList ==
  \/ CreateBaseline
  \/ MakeDirectory
  \/ ListBaselines

SpecList == InitList /\ [][NextList]_vars

\* C24: the list of the baselines has one key for each hostname crawled, the
\* hostname itself, and under it one date for each baseline of that
\* hostname, whenever they were saved and also when the hostname holds a
\* hyphen.
C24_GroupedByHostname ==
  (prog = "mainMenu" /\ pc = "listed") =>
    \A b \in created :
      /\ b.domain \in DOMAIN categorized
      /\ Len(categorized[b.domain]) = Cardinality({c \in created : c.domain = b.domain})

\* ------------------------------------------------------------------------
\* Depth and type of a page
\* ------------------------------------------------------------------------

\* The number of non-empty segments of a path: the characters other than
\* '/' that begin it or follow a '/'.
SegmentStarts(pathname) ==
  Cardinality({i \in 1..Len(pathname) :
                 pathname[i] # "/" /\ (i = 1 \/ pathname[i - 1] = "/")})

\* The records of the crawl that runs
CrawlRecords ==
  {pages[i] : i \in 1..Len(pages)} \cup {pageDetails[i] : i \in 1..Len(pageDetails)}

\* C25: in every page record of either crawl, path is the path of the url
\* and pathDepth the number of its non-empty segments; in a record of
\* generatePageReport the type is main exactly when pathDepth is at most 1.
C25_DepthAndType ==
  \A r \in CrawlRecords :
    /\ r.path = PathnameOf[r.url]
    /\ r.pathDepth = SegmentStarts(r.path)
    /\ prog = "generatePageReport" => (r.type = "main" <=> r.pathDepth <= 1)

\* generatePageReport has recorded the homepage, of depth 0 and type main,
\* and a page of depth 2 and type sub.
C25_Witness ==
  /\ prog = "generatePageReport" /\ pc = "done"
  /\ \E i, j \in 1..Len(pageDetails) :
       /\ pageDetails[i].path = <<"/">>
       /\ pageDetails[i].pathDepth = 0 /\ pageDetails[i].type = "main"
       /\ pageDetails[j].path = <<"/", "a", "/", "b">>
       /\ pageDetails[j].pathDepth = 2 /\ pageDetails[j].type = "sub"

\* ------------------------------------------------------------------------
\* The frontier of generatePageReport
\* ------------------------------------------------------------------------

\* C26: in generatePageReport the pending queue holds no URL twice and no
\* URL is enqueued twice, so that when the run ends as many URLs were
\* enqueued as were visited.
C26_ReportEnqueuesOnce ==
  prog = "generatePageReport" =>
    /\ NoRepeat(toVisit)
    /\ NoRepeat(enqueued)
    /\ pc = "done" => Len(enqueued) = Cardinality(visited)

\* ------------------------------------------------------------------------
\* The spelling of the URLs of the frontier
\* ------------------------------------------------------------------------

\* What normalizeUrl makes of a URL of the site taken as a link of itself:
\* its serialization without the fragment.
NormalFormOf == [url \in SiteUrls |-> normalizeUrl(url, url)]

\* C27: in both crawlers every URL that is pending or visited, the seed
\* included, is its own normal form, so that no two visited URLs have the
\* same normal form.
C27_FrontierNormalized ==
  /\ \A url \in FrontierUrls : NormalFormOf[url] = url
  /\ \A u, v \in visitedUrls \cup visited : NormalFormOf[u] = NormalFormOf[v] => u = v

\* ------------------------------------------------------------------------
\* The screenshots of generatePageReport
\* ------------------------------------------------------------------------

\* C28: in generatePageReport with screenshots enabled every record with
\* status success has a screenshotPath, a page whose capture failed being
\* recorded with status error, an errorMessage and a place in errorPages.
C28_SuccessHasScreenshot ==
  (prog = "generatePageReport" /\ takeScreenshots) =>
    \A i \in 1..Len(pageDetails) :
      pageDetails[i].status = "success" => pageDetails[i].screenshotPath # Null

\* ------------------------------------------------------------------------
\* The page type in the manifest of crawlAndScreenshot
\* ------------------------------------------------------------------------

\* C29: in every record of crawlAndScreenshot, captured or failed, the type
\* is main exactly when the url is the start URL as it was given; the
\* manifest written has a main record, and its first record is one.
C29_MainIsStartUrl ==
  prog = "crawlAndScreenshot" =>
    /\ \A i \in 1..Len(pages) : pages[i].type = "main" <=> pages[i].url = startUrl
    /\ \A i \in 1..Len(pages) : pages[i].type \in {"main", "sub"}
    /\ pagesJson # NoFile =>
         /\ pages # <<>> /\ pages[1].type = "main"
         /\ pagesJson = FileWith(JsonStringify(pages))

\* A manifest is written with a failed sub page after the captured start
\* page, and with a captured page of depth 1 that is no main page.
C29_Witness ==
  /\ prog = "crawlAndScreenshot" /\ pc = "done" /\ pagesJson # NoFile
  /\ \E i, j, k \in 1..Len(pages) :
       /\ pages[i].status = "success" /\ pages[i].type = "main"
       /\ pages[j].status = "error" /\ pages[j].type = "sub"
       /\ pages[k].status = "success" /\ pages[k].type = "sub" /\ pages[k].pathDepth = 1

\* ------------------------------------------------------------------------
\* The browser of a run
\* ------------------------------------------------------------------------

\* crawlAndScreenshot is called with a URL that has a domain: nothing is
\* launched and nothing is on disk yet.
InitCrawlRun ==
  /\ browser = "none" /\ closes = 0
  /\ prog = "crawlAndScreenshot"
  /\ pc = "start"
  /\ startUrl \in StartUrls
  /\ currentUrl = Null
  /\ visitedUrls = {} /\ urlsToVisit = <<>> /\ pages = <<>>
  /\ pageMeta = NoMeta /\ images = NoFiles /\ pagesJson = NoFile
  /\ navigated = <<>> /\ enqueued = <<>> /\ depths = <<>>
  /\ skips = 0 /\ duplicates = 0 /\ thrown = <<>>
  /\ visited = {} /\ toVisit = <<>> /\ pageDetails = <<>>
  /\ mainPages = {} /\ subPages = {} /\ errorPages = {}
  /\ takeScreenshots = FALSE
  /\ NormIdle /\ ListIdle /\ CompareIdle

\* const browser = await chromium.launch(); ...; const urlsToVisit = [startUrl]
CrawlLaunch ==
  /\ prog = "crawlAndScreenshot" /\ pc = "start"
  /\ browser' = "open"
  /\ urlsToVisit' = <<startUrl>>
  /\ enqueued' = <<startUrl>>
  /\ depths' = <<0>>
  /\ pc' = "mkdir"
  /\ UNCHANGED <<prog, startUrl, currentUrl, visitedUrls, pages, pageMeta, images, pagesJson,
                 navigated, skips, duplicates, thrown, closes>>
  /\ UNCHANGED <<reportVars, normVars, listVars, compareVars>>

\* fs.mkdirSync(folderPath, { recursive: true }): the folder is made and the
\* loop reached, or mkdirSync throws; crawlAndScreenshot has no try around
\* it, the error reaches the catch of baselineMenu, which logs it and
\* returns to the main menu.
CrawlMkdir ==
  /\ prog = "crawlAndScreenshot" /\ pc = "mkdir"
  /\ \E ok \in BOOLEAN :
       IF ok
       THEN /\ images' = WriteFile(images, FolderPath, Folder)
            /\ pc' = "loop"
            /\ UNCHANGED thrown
       ELSE /\ pc' = "failed"
            /\ thrown' = Append(thrown, <<startUrl, <<"mkdir failed">>>>)
            /\ UNCHANGED images
  /\ UNCHANGED <<prog, startUrl, currentUrl, visitedUrls, urlsToVisit, pages, pageMeta, pagesJson,
                 navigated, enqueued, depths, skips, duplicates>>
  /\ UNCHANGED <<reportVars, normVars, listVars, compareVars, runVars>>

\* A whole run of crawlAndScreenshot, which the user may interrupt
SpecCrawlRun == InitCrawlRun /\ [][CrawlLaunch \/ CrawlMkdir \/ NextCrawl \/ Sigint]_vars

\* C30: when a run of crawlAndScreenshot has ended, by completion, by an
\* error after the launch or by SIGINT, the browser it launched is closed,
\* and no browser is ever closed twice.
C30_BrowserClosedOnEveryExit ==
  /\ closes <= 1
  /\ (pc \in {"done", "failed", "cancelled"} /\ browser # "none") =>
       browser = "closed" /\ closes = 1

\* ------------------------------------------------------------------------
\* The summary generatePageReport returns
\* ------------------------------------------------------------------------

\* return { totalPages: visited.size, ..., pageDetails: pageDetails, ... }
ReportSummary ==
  [totalPages |-> Cardinality(visited),
   mainPages |-> Cardinality(mainPages),
   subPages |-> Cardinality(subPages),
   errorPages |-> Cardinality(errorPages),
   successfulPages |-> Cardinality(visited) - Cardinality(errorPages),
   pageDetails |-> pageDetails,
   hostname |-> DomainOf[startUrl],
   startUrl |-> startUrl,
   screenshotsTaken |-> takeScreenshots]

\* The records of the summary with a status
WithStatus(status) ==
  {i \in 1..Len(ReportSummary.pageDetails) : ReportSummary.pageDetails[i].status = status}

\* C31: when generatePageReport returns, pageDetails has one record for
\* each visited URL and none is pending; totalPages, mainPages + subPages,
\* successfulPages + errorPages and the number of records are equal;
\* errorPages is the number of records with status error and
\* successfulPages the number with status success.
C31_SummaryConsistent ==
  (prog = "generatePageReport" /\ pc = "done") =>
    /\ {ReportSummary.pageDetails[i].url : i \in 1..Len(ReportSummary.pageDetails)} = visited
    /\ Len(ReportSummary.pageDetails) = Cardinality(visited)
    /\ WithStatus("pending") = {}
    /\ ReportSummary.totalPages = Len(ReportSummary.pageDetails)
    /\ ReportSummary.totalPages = ReportSummary.mainPages + ReportSummary.subPages
    /\ ReportSummary.totalPages = ReportSummary.successfulPages + ReportSummary.errorPages
    /\ ReportSummary.errorPages = Cardinality(WithStatus("error"))
    /\ ReportSummary.successfulPages = Cardinality(WithStatus("success"))

\* A report returns after a URL pending twice was skipped, with a main and
\* a sub page, a loaded and a failed page.
C31_Witness ==
  /\ prog = "generatePageReport" /\ pc = "done"
  /\ skips >= 1
  /\ ReportSummary.mainPages >= 1 /\ ReportSummary.subPages >= 1
  /\ ReportSummary.errorPages >= 1 /\ ReportSummary.successfulPages >= 2

\* ------------------------------------------------------------------------
\* The options of compareMenu
\* ------------------------------------------------------------------------

\* options: a { website, date } for every date of every key of categorized
Options(cat) ==
  UNION {{[website |-> website, date |-> cat[website][i]] : i \in 1..Len(cat[website])} :
           website \in DOMAIN cat}

\* const folderName = `${selected.website}-${selected.date}`
OptionFolderName(opt) == opt.website \o <<"-">> \o opt.date

\* The number of options pushed
RECURSIVE OptionCount(_, _)
OptionCount(cat, websites) ==
  IF websites = {} THEN 0
  ELSE Len(cat[CHOOSE w \in websites : TRUE])
         + OptionCount(cat, websites \ {CHOOSE w \in websites : TRUE})

\* C32: when compareMenu has read BASELINE_DIR, every folder whose name
\* holds a hyphen is offered as the option whose website and date joined
\* by a hyphen give its name, every option names a folder that exists,
\* there are as many options as such folders, and a folder whose name
\* holds no hyphen is not offered.
C32_OptionsAreTheFolders ==
  (prog = "mainMenu" /\ pc \in {"listed", "crashed"}) =>
    /\ \A folder \in folders :
         IndexOf(folder, "-") # 0 =>
           [website |-> FolderWebsite(folder), date |-> FolderDate(folder)] \in Options(categorized)
    /\ \A opt \in Options(categorized) :
         OptionFolderName(opt) \in folders /\ IndexOf(OptionFolderName(opt), "-") # 0
    /\ OptionCount(categorized, DOMAIN categorized)
         = Cardinality({folder \in folders : IndexOf(folder, "-") # 0})

====
